---- MODULE Spec2Model ----
(***************************************************************************)
(* CertTrackr: the storage layer (PostgreSQLStorage / InMemoryStorage),    *)
(* the expiry classification it performs on stored records, the client's   *)
(* per-card classification, and the DateExtractor.                         *)
(*                                                                         *)
(* Instants are whole seconds counted from the start of the model, so one  *)
(* day (1000 * 3600 * 24 ms in the source) is 3600 * 24 ticks; every       *)
(* comparison and rounding of the source is kept as it is.                 *)
(***************************************************************************)
EXTENDS Integers, Sequences, FiniteSets, TLC

VARIABLES
    useInMemory,        \* storage selection: !process.env.DATABASE_URL
    now,                \* the wall clock read by new Date() / SQL now()
    items,              \* InMemoryStorage.items
    subscriptionItems,  \* InMemoryStorage.subscriptionItems
    certificates,       \* rows of the certificates table
    subscriptions,      \* rows of the subscriptions table
    nextCertId,         \* ids handed out so far (randomUUID / gen_random_uuid)
    nextSubId,
    ret,                \* the value returned by the storage call just made
    cExpiry,            \* classification on its own: the expiry instant,
    cNow,               \*   the evaluation instant,
    cOut,               \*   and what the classifying code derived
    xNow,               \* extraction: the clock read by isValidExpiryDate,
    xText,              \*   the text handed to dateExtractor.extractExpiryDate,
    xOut,               \*   and what it returned,
    xLastIndex,         \*   the lastIndex of each regex of this.datePatterns,
    xEarlier,           \*   whether the shared instance had served a call before
    nIn,                \* normalization: the string handed to parseDate / toDate
    nOut,               \*   and what came back
    dashboard,          \* the browser: the state of the Dashboard page,
    search,             \*   of the useSearch hook,
    auth                \*   and of useAuth and the router of App

storageVars == <<useInMemory, now, items, subscriptionItems, certificates,
                 subscriptions, nextCertId, nextSubId, ret>>

classifyVars == <<cExpiry, cNow, cOut>>

extractVars == <<xNow, xText, xOut, xLastIndex, xEarlier>>

normalizeVars == <<nIn, nOut>>

clientVars == <<dashboard, search, auth>>

vars == <<storageVars, classifyVars, extractVars, normalizeVars, clientVars>>

-----------------------------------------------------------------------------
(* Bounds of the model *)

MaxCerts == 2
MaxSubs == 1

(* Program constants *)

DAY == 3600 * 24            \* 1000 * 3600 * 24 ms
totalDays == 365

None == "none"              \* an absent string
Absent == 0 - 1             \* an absent number or date
undefined == [undefined |-> TRUE]   \* no record
NaN == 0 - 1000000000       \* the time of an Invalid Date; a number that is NaN

Max(a, b) == IF a >= b THEN a ELSE b
Min(a, b) == IF a <= b THEN a ELSE b

\* Math.ceil(a / b) for b > 0
Ceil(a, b) == -((-a) \div b)

-----------------------------------------------------------------------------
(* The instants the clock visits and the expiry dates requests carry *)

E0 == 32 * DAY
E1 == E0 + DAY

ExpiryDates == {E0, E1}

\* end dates of subscriptions: up to a year and a day after the first instant
EndDates == {E0 - DAY, E0, 366 * DAY, 367 * DAY}

Instants == {E0 - 31 * DAY, E0 - 30 * DAY - 1, E0 - 30 * DAY, E0, E0 + 1}

FirstInstant == E0 - 31 * DAY

CertIds == 1..(MaxCerts + 1)
SubIds == 1..(MaxSubs + 1)

-----------------------------------------------------------------------------
(* Enrichment: the derived fields *)

\* Math.floor in place of Math.ceil
calculateDaysUntilExpiry_Floor(expiryDate, t) == (expiryDate - t) \div DAY

calculateDaysUntilExpiry(expiryDate, t) ==
    IF expiryDate = NaN THEN NaN ELSE Ceil(expiryDate - t, DAY)

\* >= in place of >
isExpired_NotStrict(expiryDate, t) == t >= expiryDate

\* new Date() > expiryDate: false for an Invalid Date
isExpired(expiryDate, t) == expiryDate # NaN /\ t > expiryDate

enrichCertificate(cert, t) ==
    [id |-> cert.id,
     expiryDate |-> cert.expiryDate,
     isExpired |-> isExpired(cert.expiryDate, t),
     daysUntilExpiry |-> calculateDaysUntilExpiry(cert.expiryDate, t)]

\* progressPercentage is kept exactly, as a multiple of 1/totalDays percent:
\* the value stored here is progressPercentage * totalDays.
PctUnit == totalDays

\* the clamp to [0, 100] left out
progressPercentage_NoClamp(daysUntilExpiry) ==
    (totalDays - daysUntilExpiry) * 100

\* Math.max and Math.min return NaN for a NaN argument
progressPercentage(daysUntilExpiry) ==
    IF daysUntilExpiry = NaN THEN NaN
    ELSE Max(0, Min(100 * PctUnit, (totalDays - daysUntilExpiry) * 100))

enrichSubscription(sub, t) ==
    LET daysUntilExpiry == IF sub.endDate = NaN THEN NaN
                           ELSE Ceil(sub.endDate - t, DAY)
    IN  [id |-> sub.id,
         endDate |-> sub.endDate,
         isExpired |-> sub.endDate # NaN /\ sub.endDate < t,
         daysUntilExpiry |-> daysUntilExpiry,
         progressPercentage |-> progressPercentage(daysUntilExpiry)]

-----------------------------------------------------------------------------
(* The client's certificate card (date-fns isPast, differenceInDays) *)

COUNTDOWN_WINDOW_DAYS == 15

\* isPast(date): date < Date.now()
isPast(date, t) == date < t

\* differenceInDays(later, earlier): the number of full days, truncated
\* towards zero
differenceInDays(later, earlier) ==
    IF later >= earlier THEN (later - earlier) \div DAY
    ELSE -((earlier - later) \div DAY)

\* remainingPercent is kept exactly, as a multiple of
\* 1/COUNTDOWN_WINDOW_DAYS percent
CardUnit == COUNTDOWN_WINDOW_DAYS

\* the orange state at <= 15 (the whole window) in place of <= 40 percent
CertificateCard_WholeWindow(expiryDate, t) ==
    LET expired == isPast(expiryDate, t)
        daysRemaining == Max(0, differenceInDays(expiryDate, t))
        remainingPercent ==
            IF expired THEN 0
            ELSE Min(100 * CardUnit, Max(0, daysRemaining * 100))
        isExpiringSoon == ~expired /\ daysRemaining <= COUNTDOWN_WINDOW_DAYS
    IN  [isExpired |-> expired,
         daysRemaining |-> daysRemaining,
         remainingPercent |-> remainingPercent,
         isExpiringSoon |-> isExpiringSoon,
         status |-> IF expired THEN "Expired"
                    ELSE IF isExpiringSoon THEN "days" ELSE "Valid"]

\* CertificateCard: what the card derives from certificate.expiryDate
CertificateCard(expiryDate, t) ==
    LET expired == isPast(expiryDate, t)
        daysRemaining == Max(0, differenceInDays(expiryDate, t))
        remainingPercent ==
            IF expired THEN 0
            ELSE Min(100 * CardUnit, Max(0, daysRemaining * 100))
        isExpiringSoon == ~expired /\ remainingPercent <= 40 * CardUnit
    IN  [isExpired |-> expired,
         daysRemaining |-> daysRemaining,
         remainingPercent |-> remainingPercent,
         isExpiringSoon |-> isExpiringSoon,
         status |-> IF expired THEN "Expired"
                    ELSE IF isExpiringSoon THEN "days" ELSE "Valid"]

\* getCertificateStatus of lib/date-utils.ts, evaluated at instant t
getCertificateStatus(expiryDate, t) ==
    LET expired == isPast(expiryDate, t)
        daysUntilExpiry == differenceInDays(expiryDate, t)
        isExpiringSoon == ~expired /\ daysUntilExpiry <= 30
    IN  IF expired
        THEN [status |-> "expired", label |-> "Expired",
              daysOverdue |-> IF daysUntilExpiry < 0 THEN -daysUntilExpiry
                              ELSE daysUntilExpiry]
        ELSE IF isExpiringSoon
        THEN [status |-> "expiring", label |-> "days",
              daysRemaining |-> daysUntilExpiry]
        ELSE [status |-> "valid", label |-> "Valid",
              daysRemaining |-> daysUntilExpiry]

\* CertificateViewModal: what the modal derives from certificate.expiryDate
CertificateViewModal(expiryDate, t) ==
    LET expired == isPast(expiryDate, t)
        daysUntilExpiry == differenceInDays(expiryDate, t)
        isExpiringSoon == ~expired /\ daysUntilExpiry <= 30
    IN  [isExpired |-> expired,
         daysUntilExpiry |-> daysUntilExpiry,
         isExpiringSoon |-> isExpiringSoon,
         status |-> IF expired THEN "Expired"
                    ELSE IF isExpiringSoon THEN "days" ELSE "Valid"]

\* SubscriptionCard: what the card derives from subscription.endDate
SubscriptionCard(endDate, t) ==
    LET expired == isPast(endDate, t)
        daysUntilExpiry == differenceInDays(endDate, t)
        isExpiringSoon == ~expired /\ daysUntilExpiry <= 30
    IN  [isExpired |-> expired,
         daysUntilExpiry |-> daysUntilExpiry,
         isExpiringSoon |-> isExpiringSoon,
         status |-> IF expired THEN "Expired"
                    ELSE IF isExpiringSoon THEN "days" ELSE "Active"]

-----------------------------------------------------------------------------
(* Sequences *)

Range(s) == {s[i] : i \in DOMAIN s}

\* Array.prototype.sort with the comparator a.expiryDate - b.expiryDate: a
\* stable insertion from the left; a comparator result of NaN (an Invalid
\* Date on either side) counts as 0, so such an element stays where it is
RECURSIVE sortByExpiry(_)
sortByExpiry(s) ==
    IF s = <<>> THEN <<>>
    ELSE LET done == sortByExpiry(SubSeq(s, 1, Len(s) - 1))
             x == s[Len(s)]
             before(a, b) == a.expiryDate # NaN /\ b.expiryDate # NaN
                             /\ a.expiryDate < b.expiryDate
             stops == {j \in 0..Len(done) : j = 0 \/ ~before(x, done[j])}
             k == CHOOSE j \in stops : \A i \in stops : i <= j
         IN  SubSeq(done, 1, k) \o <<x>> \o SubSeq(done, k + 1, Len(done))

\* Array.prototype.slice(from) and slice(0, n)
sliceFrom(s, from) == SubSeq(s, from + 1, Len(s))
sliceTo(s, n) == SubSeq(s, 1, Min(n, Len(s)))

\* the orders in which a query may deliver a set of rows
Orders(S) ==
    {s \in [1..Cardinality(S) -> S] : Range(s) = S}

\* ... ORDER BY expiry_date
OrderedByExpiry(S) ==
    {s \in Orders(S) :
        \A i, j \in DOMAIN s : i < j => s[i].expiryDate <= s[j].expiryDate}

-----------------------------------------------------------------------------
(* Certificate operations of the two storages.  Each operator gives the   *)
(* value the method returns; the actions below apply the state change.     *)

Statuses == {"all", "expired", "expiring", "valid"}

\* getCertificates() called without params
NoParams == [status |-> None, offset |-> Absent, limit |-> Absent]

\* the certificate looked up by its position in the list in place of its id
memGetCertificate_ByIndex(its, id) ==
    IF id \in DOMAIN its THEN its[id] ELSE undefined

\* InMemoryStorage.getCertificate: this.items.find(i => i.id === id)
memGetCertificate(its, id) ==
    IF \E i \in DOMAIN its : its[i].id = id
    THEN its[CHOOSE i \in DOMAIN its :
                /\ its[i].id = id
                /\ \A j \in DOMAIN its : its[j].id = id => i <= j]
    ELSE undefined

\* the expiring bucket closed with < in place of <=
memGetCertificates_OpenWindow(its, params, t) ==
    LET in30 == t + 30 * DAY
        isExp(c) == c.expiryDate < t
        isExpiring(c) == c.expiryDate >= t /\ c.expiryDate < in30
        isValid(c) == c.expiryDate > in30
        filtered ==
            IF params.status # None /\ params.status # "all"
            THEN CASE params.status = "expired" -> SelectSeq(its, isExp)
                   [] params.status = "expiring" -> SelectSeq(its, isExpiring)
                   [] params.status = "valid" -> SelectSeq(its, isValid)
            ELSE its
        sorted == sortByExpiry(filtered)
        skipped == IF params.offset # Absent THEN sliceFrom(sorted, params.offset)
                   ELSE sorted
    IN  IF params.limit # Absent THEN sliceTo(skipped, params.limit) ELSE skipped

\* InMemoryStorage.getCertificates
memGetCertificates(its, params, t) ==
    LET in30 == t + 30 * DAY
        \* every comparison with an Invalid Date is false
        isExp(c) == c.expiryDate # NaN /\ c.expiryDate < t
        isExpiring(c) == c.expiryDate # NaN
                         /\ c.expiryDate >= t /\ c.expiryDate <= in30
        isValid(c) == c.expiryDate # NaN /\ c.expiryDate > in30
        filtered ==
            IF params.status # None /\ params.status # "all"
            THEN CASE params.status = "expired" -> SelectSeq(its, isExp)
                   [] params.status = "expiring" -> SelectSeq(its, isExpiring)
                   [] params.status = "valid" -> SelectSeq(its, isValid)
            ELSE its
        sorted == sortByExpiry(filtered)
        skipped == IF params.offset # Absent THEN sliceFrom(sorted, params.offset)
                   ELSE sorted
    IN  IF params.limit # Absent THEN sliceTo(skipped, params.limit) ELSE skipped

\* InMemoryStorage.searchCertificates; matching is the set of ids of the
\* stored certificates one of whose text fields contains the query
memSearchCertificates(its, blank, matching, t) ==
    IF blank THEN memGetCertificates(its, NoParams, t)
    ELSE LET hit(c) == c.id \in matching IN SelectSeq(its, hit)

\* the expired bucket counted with <= in place of <
memGetCertificateStats_NotStrict(its, t) ==
    LET in30 == t + 30 * DAY
    IN  [total |-> Len(its),
         valid |-> Cardinality({i \in DOMAIN its : its[i].expiryDate > in30}),
         expiring |-> Cardinality({i \in DOMAIN its :
                        its[i].expiryDate >= t /\ its[i].expiryDate <= in30}),
         expired |-> Cardinality({i \in DOMAIN its : its[i].expiryDate <= t})]

\* InMemoryStorage.getCertificateStats
memGetCertificateStats(its, t) ==
    LET in30 == t + 30 * DAY
        dated == {i \in DOMAIN its : its[i].expiryDate # NaN}
    IN  [total |-> Len(its),
         valid |-> Cardinality({i \in dated : its[i].expiryDate > in30}),
         expiring |-> Cardinality({i \in dated :
                        its[i].expiryDate >= t /\ its[i].expiryDate <= in30}),
         expired |-> Cardinality({i \in dated : its[i].expiryDate < t})]

\* the rows a WHERE clause on the status keeps (now() + interval '30 days')
pgWhereStatus(rows, status, t) ==
    CASE status = "expired" -> {r \in rows : r.expiryDate < t}
      [] status = "expiring" ->
            {r \in rows : r.expiryDate >= t /\ r.expiryDate <= t + 30 * DAY}
      [] status = "valid" -> {r \in rows : r.expiryDate > t + 30 * DAY}
      [] OTHER -> rows

enrichAll(s, t) == [i \in DOMAIN s |-> enrichCertificate(s[i], t)]

\* PostgreSQLStorage.getCertificate
pgGetCertificate(rows, id, t) ==
    IF \E r \in rows : r.id = id
    THEN enrichCertificate(CHOOSE r \in rows : r.id = id, t)
    ELSE undefined

\* PostgreSQLStorage.getCertificates: the results the query may deliver
\* (rows of equal expiry date come in any order)
pgGetCertificates(rows, params, t) ==
    LET kept == IF params.status # None /\ params.status # "all"
                THEN pgWhereStatus(rows, params.status, t) ELSE rows
        page(s) ==
            LET skipped == IF params.offset # Absent /\ params.offset # 0
                           THEN sliceFrom(s, params.offset) ELSE s
            IN  IF params.limit # Absent /\ params.limit # 0
                THEN sliceTo(skipped, params.limit) ELSE skipped
    IN  {enrichAll(page(s), t) : s \in OrderedByExpiry(kept)}

\* PostgreSQLStorage.searchCertificates
pgSearchCertificates(rows, blank, matching, t) ==
    IF blank THEN pgGetCertificates(rows, NoParams, t)
    ELSE {enrichAll(s, t) : s \in OrderedByExpiry({r \in rows : r.id \in matching})}

\* PostgreSQLStorage.getCertificateStats
pgGetCertificateStats(rows, t) ==
    [total |-> Cardinality(rows),
     expired |-> Cardinality({r \in rows : r.expiryDate < t}),
     expiring |-> Cardinality({r \in rows :
                    r.expiryDate >= t /\ r.expiryDate <= t + 30 * DAY}),
     valid |-> Cardinality({r \in rows : r.expiryDate > t + 30 * DAY})]

-----------------------------------------------------------------------------
(* Subscription operations *)

memGetSubscription(subs, id) ==
    IF \E i \in DOMAIN subs : subs[i].id = id
    THEN subs[CHOOSE i \in DOMAIN subs :
                /\ subs[i].id = id
                /\ \A j \in DOMAIN subs : subs[j].id = id => i <= j]
    ELSE undefined

memGetSubscriptionStats(subs, t) ==
    LET in30 == t + 30 * DAY
        dated == {i \in DOMAIN subs : subs[i].endDate # NaN}
    IN  [total |-> Len(subs),
         valid |-> Cardinality({i \in dated : subs[i].endDate > in30}),
         expiring |-> Cardinality({i \in dated :
                        subs[i].endDate >= t /\ subs[i].endDate <= in30}),
         expired |-> Cardinality({i \in dated : subs[i].endDate < t})]

pgGetSubscription(rows, id, t) ==
    IF \E r \in rows : r.id = id
    THEN enrichSubscription(CHOOSE r \in rows : r.id = id, t)
    ELSE undefined

\* PostgreSQLStorage.getSubscriptions: select without ORDER BY
pgGetSubscriptions(rows, t) ==
    {[i \in DOMAIN s |-> enrichSubscription(s[i], t)] : s \in Orders(rows)}

pgGetSubscriptionStats(rows, t) ==
    [total |-> Cardinality(rows),
     expired |-> Cardinality({r \in rows : r.endDate < t}),
     expiring |-> Cardinality({r \in rows :
                    r.endDate >= t /\ r.endDate <= t + 30 * DAY}),
     valid |-> Cardinality({r \in rows : r.endDate > t + 30 * DAY})]

-----------------------------------------------------------------------------
(* The storage as a state machine *)

ClassifyIdle ==
    /\ cExpiry = 0
    /\ cNow = 0
    /\ cOut = [op |-> "none"]

NormalizeIdle ==
    /\ nIn = <<>>
    /\ nOut = [op |-> "none"]

ExtractIdle ==
    /\ xNow = 0
    /\ xText = <<>>
    /\ xOut = [op |-> "none"]
    /\ xLastIndex = <<0, 0, 0, 0, 0, 0, 0, 0, 0>>
    /\ xEarlier = FALSE

\* Dashboard as first rendered: the initial values of its useState calls, no
\* file dialog open, no upload and no mutation under way, no request sent yet
DashboardIdle ==
    dashboard = [selectedCertificate |-> Absent,
                 showDateVerification |-> FALSE,
                 verificationMode |-> "create",
                 showEditModal |-> FALSE,
                 showViewModal |-> FALSE,
                 uploadData |-> None,
                 picker |-> FALSE,
                 uploading |-> None,
                 renewUploading |-> None,
                 mutation |-> FALSE,
                 request |-> [method |-> None]]

\* useSearch as first rendered: both queries "", the effect of the first
\* render has set its timer, nothing fetched and nothing requested
debounceDelay == 300

\* v4: the build has @tanstack/react-query 4, where a disabled query without
\* data reports isLoading
useSearchMounted(v4) ==
    [searchQuery |-> <<>>,
     debouncedQuery |-> <<>>,
     clock |-> 0,
     changedAt |-> 0,
     timer |-> [set |-> TRUE, due |-> debounceDelay, value |-> <<>>],
     data |-> {},
     fetching |-> {},
     requests |-> {},
     v4 |-> v4]

SearchIdle == search = useSearchMounted(FALSE)

\* useAuth and Router as first rendered: user null, loading true; the effect
\* has called getSession and subscribed to onAuthStateChange
useAuthMounted(session) ==
    [session |-> session,       \* the session the Supabase client holds
     user |-> None,
     loading |-> TRUE,
     isMounted |-> TRUE,
     subscribed |-> TRUE,
     getSession |-> "called",   \* "called", "read" (the client has looked the
     result |-> None,           \*   session up), "done" (init has continued)
     event |-> FALSE,           \* the onAuthStateChange callback has run
     location |-> "/"]

AuthIdle == auth = useAuthMounted(None)

ClientIdle == DashboardIdle /\ SearchIdle /\ AuthIdle

Init ==
    /\ ClassifyIdle
    /\ ExtractIdle
    /\ NormalizeIdle
    /\ ClientIdle
    /\ useInMemory \in BOOLEAN
    /\ now = FirstInstant
    /\ items = <<>>
    /\ subscriptionItems = <<>>
    /\ certificates = {}
    /\ subscriptions = {}
    /\ nextCertId = 1
    /\ nextSubId = 1
    /\ ret = [op |-> "none"]

\* time passes between two requests
Tick ==
    /\ \E t \in Instants : t > now /\ now' = t
    /\ ret' = [op |-> "none"]
    /\ UNCHANGED <<useInMemory, items, subscriptionItems, certificates,
                   subscriptions, nextCertId, nextSubId, classifyVars, extractVars,
                   normalizeVars, clientVars>>

certFrame == <<useInMemory, now, subscriptionItems, subscriptions, nextSubId,
               classifyVars, extractVars, normalizeVars, clientVars>>
subFrame == <<useInMemory, now, items, certificates, nextCertId, classifyVars,
              extractVars, normalizeVars, clientVars>>
readFrame == <<useInMemory, now, items, subscriptionItems, certificates,
               subscriptions, nextCertId, nextSubId, classifyVars, extractVars,
               normalizeVars, clientVars>>

GetCertificate(id) ==
    /\ ret' = [op |-> "getCertificate", id |-> id,
               val |-> IF useInMemory THEN memGetCertificate(items, id)
                       ELSE pgGetCertificate(certificates, id, now)]
    /\ UNCHANGED readFrame

GetCertificates(params) ==
    /\ \E val \in (IF useInMemory THEN {memGetCertificates(items, params, now)}
                   ELSE pgGetCertificates(certificates, params, now)) :
          ret' = [op |-> "getCertificates", params |-> params, val |-> val]
    /\ UNCHANGED readFrame

SearchCertificates(blank, matching) ==
    /\ \E val \in (IF useInMemory
                   THEN {memSearchCertificates(items, blank, matching, now)}
                   ELSE pgSearchCertificates(certificates, blank, matching, now)) :
          ret' = [op |-> "searchCertificates", val |-> val]
    /\ UNCHANGED readFrame

GetCertificateStats ==
    /\ ret' = [op |-> "getCertificateStats",
               val |-> IF useInMemory THEN memGetCertificateStats(items, now)
                       ELSE pgGetCertificateStats(certificates, now)]
    /\ UNCHANGED readFrame

CreateCertificate(expiryDate) ==
    /\ nextCertId <= MaxCerts
    /\ nextCertId' = nextCertId + 1
    /\ LET row == [id |-> nextCertId, expiryDate |-> expiryDate]
           cert == enrichCertificate(row, now)
       IN  /\ IF useInMemory
              THEN items' = Append(items, cert) /\ UNCHANGED certificates
              ELSE certificates' = certificates \cup {row} /\ UNCHANGED items
           /\ ret' = [op |-> "createCertificate", val |-> cert]
    /\ UNCHANGED certFrame

\* updates.expiryDate = Absent: the update names other columns only
UpdateCertificate(id, updates) ==
    /\ IF useInMemory
       THEN LET found == {i \in DOMAIN items : items[i].id = id}
            IN  IF found = {}
                THEN /\ ret' = [op |-> "updateCertificate", id |-> id, val |-> undefined]
                     /\ UNCHANGED items
                ELSE LET index == CHOOSE i \in found : \A j \in found : i <= j
                         merged == [id |-> items[index].id,
                                    expiryDate |->
                                        IF updates.expiryDate # Absent
                                        THEN updates.expiryDate
                                        ELSE items[index].expiryDate]
                         updated == enrichCertificate(merged, now)
                     IN  /\ items' = [items EXCEPT ![index] = updated]
                         /\ ret' = [op |-> "updateCertificate", id |-> id,
                                    val |-> updated]
       ELSE LET hit == {r \in certificates : r.id = id}
                set(r) == [id |-> r.id,
                           expiryDate |-> IF updates.expiryDate # Absent
                                          THEN updates.expiryDate
                                          ELSE r.expiryDate]
            IN  /\ certificates' = (certificates \ hit) \cup {set(r) : r \in hit}
                /\ ret' = [op |-> "updateCertificate", id |-> id,
                           val |-> IF hit = {} THEN undefined
                                   ELSE enrichCertificate(
                                            set(CHOOSE r \in hit : TRUE), now)]
    /\ IF useInMemory THEN UNCHANGED certificates ELSE UNCHANGED items
    /\ UNCHANGED <<certFrame, nextCertId>>

DeleteCertificate(id) ==
    /\ IF useInMemory
       THEN LET keep(i) == i.id # id
                after == SelectSeq(items, keep)
            IN  /\ items' = after
                /\ ret' = [op |-> "deleteCertificate", id |-> id,
                           val |-> Len(after) < Len(items)]
                /\ UNCHANGED certificates
       ELSE LET deleted == {r \in certificates : r.id = id}
            IN  /\ certificates' = certificates \ deleted
                /\ ret' = [op |-> "deleteCertificate", id |-> id,
                           val |-> Cardinality(deleted) > 0]
                /\ UNCHANGED items
    /\ UNCHANGED <<certFrame, nextCertId>>

GetSubscription(id) ==
    /\ ret' = [op |-> "getSubscription", id |-> id,
               val |-> IF useInMemory THEN memGetSubscription(subscriptionItems, id)
                       ELSE pgGetSubscription(subscriptions, id, now)]
    /\ UNCHANGED readFrame

GetSubscriptions ==
    /\ \E val \in (IF useInMemory THEN {subscriptionItems}
                   ELSE pgGetSubscriptions(subscriptions, now)) :
          ret' = [op |-> "getSubscriptions", val |-> val]
    /\ UNCHANGED readFrame

GetSubscriptionStats ==
    /\ ret' = [op |-> "getSubscriptionStats",
               val |-> IF useInMemory
                       THEN memGetSubscriptionStats(subscriptionItems, now)
                       ELSE pgGetSubscriptionStats(subscriptions, now)]
    /\ UNCHANGED readFrame

CreateSubscription(endDate) ==
    /\ nextSubId <= MaxSubs
    /\ nextSubId' = nextSubId + 1
    /\ LET row == [id |-> nextSubId, endDate |-> endDate]
           sub == enrichSubscription(row, now)
       IN  /\ IF useInMemory
              THEN subscriptionItems' = Append(subscriptionItems, sub)
                   /\ UNCHANGED subscriptions
              ELSE subscriptions' = subscriptions \cup {row}
                   /\ UNCHANGED subscriptionItems
           /\ ret' = [op |-> "createSubscription", val |-> sub]
    /\ UNCHANGED subFrame

UpdateSubscription(id, updates) ==
    /\ IF useInMemory
       THEN LET found == {i \in DOMAIN subscriptionItems :
                            subscriptionItems[i].id = id}
            IN  IF found = {}
                THEN /\ ret' = [op |-> "updateSubscription", id |-> id, val |-> undefined]
                     /\ UNCHANGED subscriptionItems
                ELSE LET index == CHOOSE i \in found : \A j \in found : i <= j
                         merged == [id |-> subscriptionItems[index].id,
                                    endDate |->
                                        IF updates.endDate # Absent
                                        THEN updates.endDate
                                        ELSE subscriptionItems[index].endDate]
                         updated == enrichSubscription(merged, now)
                     IN  /\ subscriptionItems' =
                                [subscriptionItems EXCEPT ![index] = updated]
                         /\ ret' = [op |-> "updateSubscription", id |-> id,
                                    val |-> updated]
       ELSE LET hit == {r \in subscriptions : r.id = id}
                set(r) == [id |-> r.id,
                           endDate |-> IF updates.endDate # Absent
                                       THEN updates.endDate ELSE r.endDate]
            IN  /\ subscriptions' = (subscriptions \ hit) \cup {set(r) : r \in hit}
                /\ ret' = [op |-> "updateSubscription", id |-> id,
                           val |-> IF hit = {} THEN undefined
                                   ELSE enrichSubscription(
                                            set(CHOOSE r \in hit : TRUE), now)]
    /\ IF useInMemory THEN UNCHANGED subscriptions ELSE UNCHANGED subscriptionItems
    /\ UNCHANGED <<subFrame, nextSubId>>

DeleteSubscription(id) ==
    /\ IF useInMemory
       THEN LET keep(i) == i.id # id
                after == SelectSeq(subscriptionItems, keep)
            IN  /\ subscriptionItems' = after
                /\ ret' = [op |-> "deleteSubscription", id |-> id,
                           val |-> Len(after) < Len(subscriptionItems)]
                /\ UNCHANGED subscriptions
       ELSE /\ subscriptions' = {r \in subscriptions : r.id # id}
            /\ ret' = [op |-> "deleteSubscription", id |-> id, val |-> TRUE]
            /\ UNCHANGED subscriptionItems
    /\ UNCHANGED <<subFrame, nextSubId>>

\* the parameters requests carry
Pages == {[offset |-> 0, limit |-> 20], [offset |-> 1, limit |-> 1]}
ParamsSet == {[status |-> st, offset |-> pg.offset, limit |-> pg.limit] :
                st \in Statuses, pg \in Pages}
CertUpdates == [expiryDate : ExpiryDates \cup {Absent}]
SubUpdates == [endDate : EndDates \cup {Absent}]

\* the certificate storage
Next ==
    \/ Tick
    \/ \E id \in CertIds : GetCertificate(id)
    \/ \E params \in ParamsSet : GetCertificates(params)
    \/ SearchCertificates(TRUE, {})
    \/ \E matching \in SUBSET CertIds : SearchCertificates(FALSE, matching)
    \/ GetCertificateStats
    \/ \E e \in ExpiryDates : CreateCertificate(e)
    \/ \E id \in CertIds, u \in CertUpdates : UpdateCertificate(id, u)
    \/ \E id \in CertIds : DeleteCertificate(id)

Spec == Init /\ [][Next]_vars

\* the subscription storage
NextSub ==
    \/ Tick
    \/ \E id \in SubIds : GetSubscription(id)
    \/ GetSubscriptions
    \/ GetSubscriptionStats
    \/ \E e \in EndDates : CreateSubscription(e)
    \/ \E id \in SubIds, u \in SubUpdates : UpdateSubscription(id, u)
    \/ \E id \in SubIds : DeleteSubscription(id)

SpecSub == Init /\ [][NextSub]_vars

-----------------------------------------------------------------------------
(* registerRoutes: the HTTP handlers in front of the storage.  ret holds    *)
(* the response: the route, the status code and the body.                   *)

MaxApiCerts == 3

\* insertCertificateSchema / updateCertificateSchema on the expiryDate of a
\* body: a string becomes new Date(string), an Invalid Date (NaN) when the
\* string is no date; a body without the field (Absent) is a ZodError for
\* the insert schema and an update of other columns for the update schema
BodyDates == {FirstInstant - DAY, E0, NaN, Absent}

\* POST /api/certificates
PostCertificate(expiryDate) ==
    /\ nextCertId <= MaxApiCerts
    /\ LET row == [id |-> nextCertId, expiryDate |-> expiryDate]
           cert == enrichCertificate(row, now)
           stored == [op |-> "POST /api/certificates", status |-> 201, val |-> cert]
           refused == [op |-> "POST /api/certificates", status |-> 400,
                       message |-> "Invalid certificate data"]
       IN  IF expiryDate = Absent
           THEN ret' = refused /\ UNCHANGED <<items, certificates, nextCertId>>
           ELSE IF useInMemory
           THEN /\ items' = Append(items, cert)
                /\ nextCertId' = nextCertId + 1
                /\ ret' = stored
                /\ UNCHANGED certificates
           \* the insert of an Invalid Date throws before it reaches the table
           ELSE IF expiryDate = NaN
           THEN ret' = refused /\ UNCHANGED <<items, certificates, nextCertId>>
           ELSE /\ certificates' = certificates \cup {row}
                /\ nextCertId' = nextCertId + 1
                /\ ret' = stored
                /\ UNCHANGED items
    /\ UNCHANGED certFrame

\* PATCH /api/certificates/:id
PatchCertificate(id, expiryDate) ==
    /\ LET set(r) == [id |-> r.id,
                      expiryDate |-> IF expiryDate # Absent THEN expiryDate
                                     ELSE r.expiryDate]
           found == {i \in DOMAIN items : items[i].id = id}
           hit == {r \in certificates : r.id = id}
           answer(cert) ==
               IF cert = undefined
               THEN [op |-> "PATCH /api/certificates/:id", id |-> id, status |-> 404,
                     message |-> "Certificate not found"]
               ELSE [op |-> "PATCH /api/certificates/:id", id |-> id, status |-> 200,
                     val |-> cert]
       IN  IF useInMemory
           THEN IF found = {}
                THEN ret' = answer(undefined) /\ UNCHANGED <<items, certificates>>
                ELSE LET index == CHOOSE i \in found : \A j \in found : i <= j
                         updated == enrichCertificate(set(items[index]), now)
                     IN  /\ items' = [items EXCEPT ![index] = updated]
                         /\ ret' = answer(updated)
                         /\ UNCHANGED certificates
           \* the update with an Invalid Date throws before it reaches the table
           ELSE IF expiryDate = NaN
           THEN /\ ret' = [op |-> "PATCH /api/certificates/:id", id |-> id,
                           status |-> 400, message |-> "Invalid update data"]
                /\ UNCHANGED <<items, certificates>>
           ELSE /\ certificates' = (certificates \ hit) \cup {set(r) : r \in hit}
                /\ ret' = answer(IF hit = {} THEN undefined
                                 ELSE enrichCertificate(set(CHOOSE r \in hit : TRUE), now))
                /\ UNCHANGED items
    /\ UNCHANGED <<certFrame, nextCertId>>

\* DELETE /api/certificates/:id
DeleteCertificateRoute(id) ==
    /\ LET keep(i) == i.id # id
           after == SelectSeq(items, keep)
           deleted == {r \in certificates : r.id = id}
           success == IF useInMemory THEN Len(after) < Len(items)
                      ELSE Cardinality(deleted) > 0
       IN  /\ IF useInMemory THEN items' = after /\ UNCHANGED certificates
              ELSE certificates' = certificates \ deleted /\ UNCHANGED items
           /\ ret' = IF ~success
                     THEN [op |-> "DELETE /api/certificates/:id", id |-> id,
                           status |-> 404, message |-> "Certificate not found"]
                     ELSE [op |-> "DELETE /api/certificates/:id", id |-> id,
                           status |-> 204]
    /\ UNCHANGED <<certFrame, nextCertId>>

\* searchCertificatesSchema.parse of the query: limit and offset are what
\* parseInt(raw, 10) gave (NaN for a string that starts with no digit), Absent
\* for a parameter that is missing or empty; success = FALSE is the ZodError
searchCertificatesSchema(query) ==
    LET limit == IF query.limit = Absent THEN 20 ELSE query.limit
        offset == IF query.offset = Absent THEN 0 ELSE query.offset
        status == IF query.status = None THEN "all" ELSE query.status
    IN  IF /\ status \in {"all", "valid", "expiring", "expired"}
           /\ limit # NaN /\ limit >= 1 /\ limit <= 100
           /\ offset # NaN /\ offset >= 0
        THEN [success |-> TRUE, status |-> status, limit |-> limit, offset |-> offset]
        ELSE [success |-> FALSE]

\* GET /api/certificates
GetCertificatesRoute(query) ==
    /\ LET params == searchCertificatesSchema(query)
       IN  IF ~params.success
           THEN ret' = [op |-> "GET /api/certificates", query |-> query, status |-> 400,
                        message |-> "Invalid query parameters"]
           ELSE \E val \in (IF useInMemory THEN {memGetCertificates(items, params, now)}
                            ELSE pgGetCertificates(certificates, params, now)) :
                    ret' = [op |-> "GET /api/certificates", query |-> query,
                            status |-> 200, params |-> params, val |-> val]
    /\ UNCHANGED readFrame

\* GET /api/certificates/stats
GetCertificateStatsRoute ==
    /\ ret' = [op |-> "GET /api/certificates/stats", status |-> 200,
               val |-> IF useInMemory THEN memGetCertificateStats(items, now)
                       ELSE pgGetCertificateStats(certificates, now)]
    /\ UNCHANGED readFrame

\* POST /api/subscriptions: endDate is what toDate made of the body's string
PostSubscription(endDate) ==
    /\ nextSubId <= MaxSubs
    /\ LET row == [id |-> nextSubId, endDate |-> endDate]
           sub == enrichSubscription(row, now)
           stored == [op |-> "POST /api/subscriptions", status |-> 201, val |-> sub]
           refused == [op |-> "POST /api/subscriptions", status |-> 400,
                       message |-> "Invalid subscription data"]
       IN  IF endDate = Absent
           THEN ret' = refused /\ UNCHANGED <<subscriptionItems, subscriptions, nextSubId>>
           ELSE IF useInMemory
           THEN /\ subscriptionItems' = Append(subscriptionItems, sub)
                /\ nextSubId' = nextSubId + 1
                /\ ret' = stored
                /\ UNCHANGED subscriptions
           ELSE IF endDate = NaN
           THEN ret' = refused /\ UNCHANGED <<subscriptionItems, subscriptions, nextSubId>>
           ELSE /\ subscriptions' = subscriptions \cup {row}
                /\ nextSubId' = nextSubId + 1
                /\ ret' = stored
                /\ UNCHANGED subscriptionItems
    /\ UNCHANGED subFrame

\* GET /api/subscriptions/stats
GetSubscriptionStatsRoute ==
    /\ ret' = [op |-> "GET /api/subscriptions/stats", status |-> 200,
               val |-> IF useInMemory
                       THEN memGetSubscriptionStats(subscriptionItems, now)
                       ELSE pgGetSubscriptionStats(subscriptions, now)]
    /\ UNCHANGED readFrame

\* DELETE /api/subscriptions/:id
DeleteSubscriptionRoute(id) ==
    /\ LET keep(i) == i.id # id
           after == SelectSeq(subscriptionItems, keep)
           \* PostgreSQLStorage.deleteSubscription returns true
           success == IF useInMemory THEN Len(after) < Len(subscriptionItems)
                      ELSE TRUE
       IN  /\ IF useInMemory
              THEN subscriptionItems' = after /\ UNCHANGED subscriptions
              ELSE /\ subscriptions' = {r \in subscriptions : r.id # id}
                   /\ UNCHANGED subscriptionItems
           /\ ret' = IF ~success
                     THEN [op |-> "DELETE /api/subscriptions/:id", id |-> id,
                           success |-> success, status |-> 404,
                           message |-> "Subscription not found"]
                     ELSE [op |-> "DELETE /api/subscriptions/:id", id |-> id,
                           success |-> success, status |-> 204]
    /\ UNCHANGED <<subFrame, nextSubId>>

\* the queries of GET /api/certificates
Queries ==
    {[status |-> st, limit |-> pg[1], offset |-> pg[2]] :
        st \in {None, "all", "valid", "archived"},
        pg \in {<<Absent, Absent>>, <<1, 1>>, <<100, 0>>, <<0, Absent>>,
                <<101, Absent>>, <<NaN, Absent>>, <<Absent, 0 - 5>>, <<2, NaN>>}}

NextApi ==
    \/ \E expiryDate \in BodyDates : PostCertificate(expiryDate)
    \/ \E id \in 1..(MaxApiCerts + 1), expiryDate \in BodyDates :
           PatchCertificate(id, expiryDate)
    \/ \E id \in 1..(MaxApiCerts + 1) : DeleteCertificateRoute(id)
    \/ \E query \in Queries : GetCertificatesRoute(query)
    \/ GetCertificateStatsRoute
    \/ \E endDate \in BodyDates : PostSubscription(endDate)
    \/ GetSubscriptionStatsRoute
    \/ \E id \in SubIds : DeleteSubscriptionRoute(id)

SpecApi == Init /\ [][NextApi]_vars

-----------------------------------------------------------------------------
(* Classification on its own: one expiry instant, one evaluation instant,  *)
(* and the code that derives a status from them.                           *)

ClassifyInstants == {0, DAY \div 2}

\* expiry - now
ClassifyOffsets ==
    {-(DAY + 1), -DAY, -(DAY - 1), -1, 0, 1, 83160, DAY, DAY + 1,
     6 * DAY, 7 * DAY - 1, 7 * DAY, 15 * DAY, 15 * DAY + 1, 16 * DAY,
     30 * DAY, 30 * DAY + 1, 31 * DAY, 365 * DAY, 366 * DAY}

StorageIdle ==
    /\ useInMemory = TRUE
    /\ now = FirstInstant
    /\ items = <<>>
    /\ subscriptionItems = <<>>
    /\ certificates = {}
    /\ subscriptions = {}
    /\ nextCertId = 1
    /\ nextSubId = 1
    /\ ret = [op |-> "none"]

InitClassify ==
    /\ StorageIdle
    /\ ClientIdle
    /\ ExtractIdle
    /\ NormalizeIdle
    /\ cNow \in ClassifyInstants
    /\ cExpiry \in {cNow + o : o \in ClassifyOffsets}
    /\ cOut = [op |-> "none"]

ClassifyCertificate ==
    /\ cOut' = [op |-> "enrichCertificate",
                val |-> enrichCertificate([id |-> 1, expiryDate |-> cExpiry], cNow)]
    /\ UNCHANGED <<storageVars, extractVars, normalizeVars, clientVars, cExpiry, cNow>>

ClassifySubscription ==
    /\ cOut' = [op |-> "enrichSubscription",
                val |-> enrichSubscription([id |-> 1, endDate |-> cExpiry], cNow)]
    /\ UNCHANGED <<storageVars, extractVars, normalizeVars, clientVars, cExpiry, cNow>>

RenderCertificateCard ==
    /\ cOut' = [op |-> "CertificateCard", val |-> CertificateCard(cExpiry, cNow)]
    /\ UNCHANGED <<storageVars, extractVars, normalizeVars, clientVars, cExpiry, cNow>>

GetCertificateStatus ==
    /\ cOut' = [op |-> "getCertificateStatus",
                val |-> getCertificateStatus(cExpiry, cNow)]
    /\ UNCHANGED <<storageVars, extractVars, normalizeVars, clientVars, cExpiry, cNow>>

RenderCertificateViewModal ==
    /\ cOut' = [op |-> "CertificateViewModal",
                val |-> CertificateViewModal(cExpiry, cNow)]
    /\ UNCHANGED <<storageVars, extractVars, normalizeVars, clientVars, cExpiry, cNow>>

RenderSubscriptionCard ==
    /\ cOut' = [op |-> "SubscriptionCard", val |-> SubscriptionCard(cExpiry, cNow)]
    /\ UNCHANGED <<storageVars, extractVars, normalizeVars, clientVars, cExpiry, cNow>>

NextClassify ==
    \/ ClassifyCertificate
    \/ ClassifySubscription
    \/ RenderCertificateCard
    \/ GetCertificateStatus
    \/ RenderCertificateViewModal
    \/ RenderSubscriptionCard

SpecClassify == InitClassify /\ [][NextClassify]_vars

-----------------------------------------------------------------------------
(* Strings are sequences of one-character strings. *)

LowerCase ==
    <<"a", "b", "c", "d", "e", "f", "g", "h", "i", "j", "k", "l", "m", "n",
      "o", "p", "q", "r", "s", "t", "u", "v", "w", "x", "y", "z">>

UpperCase ==
    <<"A", "B", "C", "D", "E", "F", "G", "H", "I", "J", "K", "L", "M", "N",
      "O", "P", "Q", "R", "S", "T", "U", "V", "W", "X", "Y", "Z">>

Letters == Range(LowerCase)
Digits == {"0", "1", "2", "3", "4", "5", "6", "7", "8", "9"}
WhiteSpace == {" ", "\t", "\n"}

toLowerChar(c) ==
    IF \E k \in DOMAIN UpperCase : UpperCase[k] = c
    THEN LowerCase[CHOOSE k \in DOMAIN UpperCase : UpperCase[k] = c]
    ELSE c

\* String.prototype.toLowerCase
toLowerCase(s) == [i \in DOMAIN s |-> toLowerChar(s[i])]

\* String.prototype.includes
includes(s, sub) ==
    \E i \in 0..(Len(s) - Len(sub)) : SubSeq(s, i + 1, i + Len(sub)) = sub

\* String.prototype.trim
RECURSIVE trimStart(_)
trimStart(s) ==
    IF s # <<>> /\ Head(s) \in WhiteSpace THEN trimStart(Tail(s)) ELSE s

RECURSIVE trimEnd(_)
trimEnd(s) ==
    IF s # <<>> /\ s[Len(s)] \in WhiteSpace
    THEN trimEnd(SubSeq(s, 1, Len(s) - 1)) ELSE s

trim(s) == trimEnd(trimStart(s))

\* text.replace(/\s+/g, ' '): every run of white space becomes one space
RECURSIVE collapseWhiteSpace(_)
collapseWhiteSpace(s) ==
    IF s = <<>> THEN <<>>
    ELSE IF Head(s) \in WhiteSpace
         THEN <<" ">> \o collapseWhiteSpace(trimStart(s))
         ELSE <<Head(s)>> \o collapseWhiteSpace(Tail(s))

\* parseInt of a string of digits
digitValue(c) == CHOOSE v \in 0..9 : <<"0", "1", "2", "3", "4", "5", "6", "7", "8", "9">>[v + 1] = c

RECURSIVE parseInt(_)
parseInt(s) ==
    IF s = <<>> THEN 0
    ELSE 10 * parseInt(SubSeq(s, 1, Len(s) - 1)) + digitValue(s[Len(s)])

-----------------------------------------------------------------------------
(* Regular expressions, matched as the backtracking matcher of the language *)
(* does: Ends gives the ways a pattern can match from position i, in the    *)
(* order the matcher tries them; the first one is the match.  Every regex   *)
(* of the source that names a letter carries the i flag, so a character is  *)
(* compared after lowering its case.                                        *)

\* character classes
Class(set) == [neg |-> FALSE, set |-> set]
Dot == [neg |-> TRUE, set |-> {"\n"}]
InClass(c, cls) == (toLowerChar(c) \in cls.set) # cls.neg

\* patterns
Chr(set) == [t |-> "chr", cls |-> Class(set)]
Rep(cls, lo, hi, greedy) == [t |-> "rep", cls |-> cls, lo |-> lo, hi |-> hi, greedy |-> greedy]
Cat(rs) == [t |-> "seq", rs |-> rs]
Alt(rs) == [t |-> "alt", rs |-> rs]
Opt(r) == [t |-> "opt", r |-> r]
Cap(r) == [t |-> "cap", r |-> r]
Bol == [t |-> "bol"]
Eol == [t |-> "eol"]
Str(chars) == Cat([i \in DOMAIN chars |-> Chr({chars[i]})])

\* the number of consecutive characters of the class from position i, at most
\* hi of them (hi = Absent: no upper limit)
RECURSIVE Run(_, _, _, _)
Run(cls, s, i, hi) ==
    IF hi = 0 \/ i > Len(s) THEN 0
    ELSE IF ~InClass(s[i], cls) THEN 0
    ELSE 1 + Run(cls, s, i + 1, hi - 1)

RECURSIVE Ends(_, _, _)
RECURSIVE Then(_, _, _)

\* every way of ms continued by the pattern rest
Then(ms, rest, s) ==
    IF ms = <<>> THEN <<>>
    ELSE LET m == Head(ms)
             ns == Ends(rest, s, m.e)
         IN  [k \in DOMAIN ns |-> [e |-> ns[k].e, c |-> m.c \o ns[k].c]]
             \o Then(Tail(ms), rest, s)

Ends(r, s, i) ==
    CASE r.t = "chr" ->
            IF i <= Len(s) /\ InClass(s[i], r.cls)
            THEN <<[e |-> i + 1, c |-> <<>>]>> ELSE <<>>
      [] r.t = "rep" ->
            LET n == Run(r.cls, s, i, r.hi)
            IN  IF n < r.lo THEN <<>>
                ELSE [k \in 1..(n - r.lo + 1) |->
                        [e |-> IF r.greedy THEN i + n - (k - 1)
                               ELSE i + r.lo + (k - 1),
                         c |-> <<>>]]
      [] r.t = "opt" -> Ends(r.r, s, i) \o <<[e |-> i, c |-> <<>>]>>
      [] r.t = "alt" ->
            IF r.rs = <<>> THEN <<>>
            ELSE Ends(Head(r.rs), s, i) \o Ends(Alt(Tail(r.rs)), s, i)
      [] r.t = "seq" ->
            IF r.rs = <<>> THEN <<[e |-> i, c |-> <<>>]>>
            ELSE Then(Ends(Head(r.rs), s, i), Cat(Tail(r.rs)), s)
      [] r.t = "cap" ->
            LET ms == Ends(r.r, s, i)
            IN  [k \in DOMAIN ms |->
                    [e |-> ms[k].e, c |-> <<<<i, ms[k].e>>>> \o ms[k].c]]
      [] r.t = "bol" -> IF i = 1 THEN <<[e |-> i, c |-> <<>>]>> ELSE <<>>
      [] r.t = "eol" -> IF i = Len(s) + 1 THEN <<[e |-> i, c |-> <<>>]>> ELSE <<>>

NoMatch == [found |-> FALSE]

RECURSIVE matchFrom(_, _, _)
matchFrom(re, s, i) ==
    IF i > Len(s) + 1 THEN NoMatch
    ELSE LET ms == Ends(re, s, i)
         IN  IF ms # <<>>
             THEN [found |-> TRUE, index |-> i, e |-> ms[1].e, c |-> ms[1].c]
             ELSE matchFrom(re, s, i + 1)

\* String.prototype.match with a regex without the g flag: the leftmost match
match(s, re) == matchFrom(re, s, 1)

\* match[0] and match[k]
matched(s, m) == SubSeq(s, m.index, m.e - 1)
group(s, m, k) == SubSeq(s, m.c[k][1], m.c[k][2] - 1)

-----------------------------------------------------------------------------
(* Dates.  The extractor's instants are whole hours counted from            *)
(* 1970-01-01 00:00 local time (the source counts milliseconds).            *)

HoursPerDay == 24

Null == [null |-> TRUE]
InvalidDate == [nan |-> TRUE]
DateAt(time) == [nan |-> FALSE, time |-> time]

\* the number of days from 1970-01-01 to the calendar day year-month-day
daysFromCivil(year, month, day) ==
    LET y == IF month <= 2 THEN year - 1 ELSE year
        era == y \div 400
        yoe == y - era * 400
        mp == IF month > 2 THEN month - 3 ELSE month + 9
        doy == (153 * mp + 2) \div 5 + day - 1
        doe == yoe * 365 + yoe \div 4 - yoe \div 100 + doy
    IN  era * 146097 + doe - 719468

\* new Date(year, monthIndex, day): local midnight; a month index or a day
\* out of range carries into the following months, and a year 0..99 is 19xx
newDate(year, monthIndex, day) ==
    LET y0 == IF year >= 0 /\ year <= 99 THEN 1900 + year ELSE year
        y == y0 + monthIndex \div 12
        m == (monthIndex % 12) + 1
    IN  DateAt((daysFromCivil(y, m, 1) + day - 1) * HoursPerDay)

MonthPrefixes ==
    <<<<"j", "a", "n">>, <<"f", "e", "b">>, <<"m", "a", "r">>, <<"a", "p", "r">>,
      <<"m", "a", "y">>, <<"j", "u", "n">>, <<"j", "u", "l">>, <<"a", "u", "g">>,
      <<"s", "e", "p">>, <<"o", "c", "t">>, <<"n", "o", "v">>, <<"d", "e", "c">>>>

\* the month a word names to the engine's date parser: a word whose first three
\* letters are those of a month name (0: no month)
monthOfWord(word) ==
    IF Len(word) >= 3
       /\ \E k \in DOMAIN MonthPrefixes : SubSeq(toLowerCase(word), 1, 3) = MonthPrefixes[k]
    THEN CHOOSE k \in DOMAIN MonthPrefixes : SubSeq(toLowerCase(word), 1, 3) = MonthPrefixes[k]
    ELSE 0

\* /^([a-z]+)\s+(\d{1,2}),?\s+(\d{4})$/i
NamedMonthFormat ==
    Cat(<<Bol, Cap(Rep(Class(Letters), 1, Absent, TRUE)),
          Rep(Class(WhiteSpace), 1, Absent, TRUE),
          Cap(Rep(Class(Digits), 1, 2, TRUE)), Opt(Chr({","})),
          Rep(Class(WhiteSpace), 1, Absent, TRUE),
          Cap(Rep(Class(Digits), 4, 4, TRUE)), Eol>>)

\* /^(\d{1,2})[\/\-](\d{1,2})[\/\-](\d{4})$/
MonthDayYearFormat ==
    Cat(<<Bol, Cap(Rep(Class(Digits), 1, 2, TRUE)), Chr({"/", "-"}),
          Cap(Rep(Class(Digits), 1, 2, TRUE)), Chr({"/", "-"}),
          Cap(Rep(Class(Digits), 4, 4, TRUE)), Eol>>)

\* /^(\d{4})[\/\-](\d{1,2})[\/\-](\d{1,2})$/
YearMonthDayFormat ==
    Cat(<<Bol, Cap(Rep(Class(Digits), 4, 4, TRUE)), Chr({"/", "-"}),
          Cap(Rep(Class(Digits), 1, 2, TRUE)), Chr({"/", "-"}),
          Cap(Rep(Class(Digits), 1, 2, TRUE)), Eol>>)

\* new Date(string) for a string "<word> <day>[,] <year>", as the engine's
\* parser for non-ISO strings reads it: the word must name a month and the day
\* be 1..31 (a day past the end of the month carries into the next month), a
\* year 0..49 is 20xx and 50..99 is 19xx.  Any other string the extractor
\* hands over is an Invalid Date.
newDateFromString(str) ==
    LET m == match(str, NamedMonthFormat)
    IN  IF ~m.found THEN InvalidDate
        ELSE LET month == monthOfWord(group(str, m, 1))
                 day == parseInt(group(str, m, 2))
                 y0 == parseInt(group(str, m, 3))
                 year == IF y0 <= 49 THEN 2000 + y0
                         ELSE IF y0 <= 99 THEN 1900 + y0 ELSE y0
             IN  IF month = 0 \/ day < 1 \/ day > 31 THEN InvalidDate
                 ELSE DateAt((daysFromCivil(year, month, 1) + day - 1) * HoursPerDay)

-----------------------------------------------------------------------------
(* DateExtractor *)

\* String.prototype.indexOf (0-based, -1 when absent)
indexOf(s, sub) ==
    IF includes(s, sub)
    THEN CHOOSE i \in 0..(Len(s) - Len(sub)) :
            /\ SubSeq(s, i + 1, i + Len(sub)) = sub
            /\ \A j \in 0..(i - 1) : SubSeq(s, j + 1, j + Len(sub)) # sub
    ELSE 0 - 1

\* format.source of the three formats
formatSources ==
    <<
     \* ^([a-z]+)\s+(\d{1,2}),?\s+(\d{4})$
     <<"^", "(", "[", "a", "-", "z", "]", "+", ")", "\\", "s", "+", "(",
           "\\", "d", "{", "1", ",", "2", "}", ")", ",", "?", "\\", "s", "+",
           "(", "\\", "d", "{", "4", "}", ")", "$">>,
     \* ^(\d{1,2})[\/\-](\d{1,2})[\/\-](\d{4})$
     <<"^", "(", "\\", "d", "{", "1", ",", "2", "}", ")", "[", "\\", "/",
           "\\", "-", "]", "(", "\\", "d", "{", "1", ",", "2", "}", ")", "[",
           "\\", "/", "\\", "-", "]", "(", "\\", "d", "{", "4", "}", ")", "$">>,
     \* ^(\d{4})[\/\-](\d{1,2})[\/\-](\d{1,2})$
     <<"^", "(", "\\", "d", "{", "4", "}", ")", "[", "\\", "/", "\\", "-",
           "]", "(", "\\", "d", "{", "1", ",", "2", "}", ")", "[", "\\", "/",
           "\\", "-", "]", "(", "\\", "d", "{", "1", ",", "2", "}", ")", "$">>
    >>

\* the formats parseDate tries, in order
formats ==
    <<[re |-> NamedMonthFormat, source |-> formatSources[1]],
      [re |-> MonthDayYearFormat, source |-> formatSources[2]],
      [re |-> YearMonthDayFormat, source |-> formatSources[3]]>>

\* '([a-z]+)'
STR_LettersGroup ==
    <<"(", "[", "a", "-", "z", "]", "+", ")">>
\* '(\\d{4})'
STR_YearGroup ==
    <<"(", "\\", "d", "{", "4", "}", ")">>

\* a normalizer that reads every numeric layout as day, month, year
dateOfFormat_DayFirst(format, str, m) ==
    IF includes(format.source, STR_LettersGroup)
    THEN newDateFromString(group(str, m, 1) \o <<" ">> \o group(str, m, 2)
                           \o <<",", " ">> \o group(str, m, 3))
    ELSE newDate(parseInt(group(str, m, 3)), parseInt(group(str, m, 2)) - 1,
                 parseInt(group(str, m, 1)))

\* the date one matched format builds
dateOfFormat(format, str, m) ==
    IF includes(format.source, STR_LettersGroup)
    THEN \* new Date(`${monthName} ${day}, ${year}`)
         newDateFromString(group(str, m, 1) \o <<" ">> \o group(str, m, 2)
                           \o <<",", " ">> \o group(str, m, 3))
    ELSE IF includes(format.source, STR_YearGroup)
            /\ indexOf(format.source, STR_YearGroup) = 0
    THEN \* [, year, month, day] = match
         newDate(parseInt(group(str, m, 1)), parseInt(group(str, m, 2)) - 1,
                 parseInt(group(str, m, 3)))
    ELSE \* [, month, day, year] = match
         newDate(parseInt(group(str, m, 3)), parseInt(group(str, m, 1)) - 1,
                 parseInt(group(str, m, 2)))

\* a loop in which the first format that matches decides
parseFormats_FirstMatchDecides(k, str) ==
    LET hits == {j \in k..Len(formats) : match(str, formats[j].re).found}
    IN  IF hits = {}
        THEN LET fallbackDate == newDateFromString(str)
             IN  [date |-> IF ~fallbackDate.nan THEN fallbackDate ELSE Null,
                  tried |-> [i \in 1..(Len(formats) + 2 - k) |-> k + i - 1]]
        ELSE LET j == CHOOSE h \in hits : \A g \in hits : h <= g
                 date == dateOfFormat(formats[j], str, match(str, formats[j].re))
             IN  [date |-> IF ~date.nan THEN date ELSE Null,
                  tried |-> [i \in 1..(j - k + 1) |-> k + i - 1]]

\* the loop of parseDate from format k on: the date it returns and the steps
\* it went through (k: format k was tried; Len(formats) + 1: the fallback)
RECURSIVE parseFormats(_, _)
parseFormats(k, str) ==
    IF k > Len(formats)
    THEN \* Fallback to native Date parsing
         LET fallbackDate == newDateFromString(str)
         IN  [date |-> IF ~fallbackDate.nan THEN fallbackDate ELSE Null,
              tried |-> <<k>>]
    ELSE LET m == match(str, formats[k].re)
             date == dateOfFormat(formats[k], str, m)
             rest == parseFormats(k + 1, str)
         IN  IF m.found /\ ~date.nan
             THEN [date |-> date, tried |-> <<k>>]
             ELSE [date |-> rest.date, tried |-> <<k>> \o rest.tried]

parseDate(dateStr) == parseFormats(1, trim(dateStr)).date

\* a plausibility filter that bounds the past only
isValidExpiryDate_PastOnly(date, t) ==
    date.time >= t - 5 * 365 * HoursPerDay

isValidExpiryDate(date, t) ==
    LET fiveYearsFromNow == t + 5 * 365 * HoursPerDay
        fiveYearsAgo == t - 5 * 365 * HoursPerDay
    IN  date.time >= fiveYearsAgo /\ date.time <= fiveYearsFromNow

STR_expir ==
    <<"e", "x", "p", "i", "r">>
STR_valid ==
    <<"v", "a", "l", "i", "d">>
STR_colon ==
    <<":">>
STR_expiry_date ==
    <<"e", "x", "p", "i", "r", "y", " ", "d", "a", "t", "e">>
STR_valid_until ==
    <<"v", "a", "l", "i", "d", " ", "u", "n", "t", "i", "l">>
STR_expires ==
    <<"e", "x", "p", "i", "r", "e", "s">>

\* calculateConfidence without the closing Math.min
calculateConfidence_NoCap(pattern, matchedText) ==
    50 + (IF includes(pattern.source, STR_expir) THEN 30 ELSE 0)
       + (IF includes(pattern.source, STR_valid) THEN 20 ELSE 0)
       + (IF includes(pattern.source, STR_colon) THEN 10 ELSE 0)
       + (IF includes(toLowerCase(matchedText), STR_expiry_date) THEN 20 ELSE 0)
       + (IF includes(toLowerCase(matchedText), STR_valid_until) THEN 20 ELSE 0)
       + (IF includes(toLowerCase(matchedText), STR_expires) THEN 15 ELSE 0)

\* a score in which the bonuses for the pattern's source exclude one another
calculateConfidence_FirstBonusOnly(pattern, matchedText) ==
    LET c3 == 50 + (IF includes(pattern.source, STR_expir) THEN 30
                    ELSE IF includes(pattern.source, STR_valid) THEN 20
                    ELSE IF includes(pattern.source, STR_colon) THEN 10 ELSE 0)
        c4 == c3 + (IF includes(toLowerCase(matchedText), STR_expiry_date) THEN 20 ELSE 0)
        c5 == c4 + (IF includes(toLowerCase(matchedText), STR_valid_until) THEN 20 ELSE 0)
        c6 == c5 + (IF includes(toLowerCase(matchedText), STR_expires) THEN 15 ELSE 0)
    IN  Min(c6, 95)

\* confidence is kept in hundredths: 50 is 0.5, 95 is 0.95 (the sums of the
\* source are sums of doubles, within 1e-15 of these)
calculateConfidence(pattern, matchedText) ==
    LET base == 50
        c1 == base + (IF includes(pattern.source, STR_expir) THEN 30 ELSE 0)
        c2 == c1 + (IF includes(pattern.source, STR_valid) THEN 20 ELSE 0)
        c3 == c2 + (IF includes(pattern.source, STR_colon) THEN 10 ELSE 0)
        c4 == c3 + (IF includes(toLowerCase(matchedText), STR_expiry_date) THEN 20 ELSE 0)
        c5 == c4 + (IF includes(toLowerCase(matchedText), STR_valid_until) THEN 20 ELSE 0)
        c6 == c5 + (IF includes(toLowerCase(matchedText), STR_expires) THEN 15 ELSE 0)
    IN  Min(c6, 95)

\* the pieces the nine patterns are made of
Spaces1 == Rep(Class(WhiteSpace), 1, Absent, TRUE)      \* \s+
Spaces0 == Rep(Class(WhiteSpace), 0, Absent, TRUE)      \* \s*

\* (?:expir[ey]|valid|expires?)
Label ==
    Alt(<<Cat(<<Str(<<"e", "x", "p", "i", "r">>), Chr({"e", "y"})>>),
          Str(<<"v", "a", "l", "i", "d">>),
          Cat(<<Str(<<"e", "x", "p", "i", "r", "e">>), Opt(Chr({"s"}))>>)>>)

\* (?:\s+(?:date|on|until|through|thru))?
Qualifier ==
    Opt(Cat(<<Spaces1,
              Alt(<<Str(<<"d", "a", "t", "e">>),
                    Str(<<"o", "n">>),
                    Str(<<"u", "n", "t", "i", "l">>),
                    Str(<<"t", "h", "r", "o", "u", "g", "h">>),
                    Str(<<"t", "h", "r", "u">>)>>)>>))

\* \s*:?\s*
Colon == Cat(<<Spaces0, Opt(Chr({":"})), Spaces0>>)

\* (?:valid\s+(?:until|through|thru))
ValidUntil ==
    Cat(<<Str(<<"v", "a", "l", "i", "d">>), Spaces1,
          Alt(<<Str(<<"u", "n", "t", "i", "l">>),
                Str(<<"t", "h", "r", "o", "u", "g", "h">>),
                Str(<<"t", "h", "r", "u">>)>>)>>)

\* expir[ey].*?
Loose ==
    Cat(<<Str(<<"e", "x", "p", "i", "r">>), Chr({"e", "y"}),
          Rep(Dot, 0, Absent, FALSE)>>)

\* ([a-z]+ \d{1,2},?\s+\d{4})
NamedMonthDate ==
    Cap(Cat(<<Rep(Class(Letters), 1, Absent, TRUE), Chr({" "}),
              Rep(Class(Digits), 1, 2, TRUE), Opt(Chr({","})), Spaces1,
              Rep(Class(Digits), 4, 4, TRUE)>>))

\* (\d{1,2}[\/\-]\d{1,2}[\/\-]\d{4})
SlashedDate ==
    Cap(Cat(<<Rep(Class(Digits), 1, 2, TRUE), Chr({"/", "-"}),
              Rep(Class(Digits), 1, 2, TRUE), Chr({"/", "-"}),
              Rep(Class(Digits), 4, 4, TRUE)>>))

\* (\d{4}[\/\-]\d{1,2}[\/\-]\d{1,2})
YearFirstDate ==
    Cap(Cat(<<Rep(Class(Digits), 4, 4, TRUE), Chr({"/", "-"}),
              Rep(Class(Digits), 1, 2, TRUE), Chr({"/", "-"}),
              Rep(Class(Digits), 1, 2, TRUE)>>))

\* pattern.source of the nine patterns
Sources ==
    <<
     \* (?:expir[ey]|valid|expires?)(?:\s+(?:date|on|until|through|thru))?\s*:?\s*([a-z]+ \d{1,2},?\s+\d{4})
     <<"(", "?", ":", "e", "x", "p", "i", "r", "[", "e", "y", "]", "|", "v",
           "a", "l", "i", "d", "|", "e", "x", "p", "i", "r", "e", "s", "?", ")",
           "(", "?", ":", "\\", "s", "+", "(", "?", ":", "d", "a", "t", "e", "|",
           "o", "n", "|", "u", "n", "t", "i", "l", "|", "t", "h", "r", "o", "u",
           "g", "h", "|", "t", "h", "r", "u", ")", ")", "?", "\\", "s", "*", ":",
           "?", "\\", "s", "*", "(", "[", "a", "-", "z", "]", "+", " ", "\\",
           "d", "{", "1", ",", "2", "}", ",", "?", "\\", "s", "+", "\\", "d",
           "{", "4", "}", ")">>,
     \* (?:expir[ey]|valid|expires?)(?:\s+(?:date|on|until|through|thru))?\s*:?\s*(\d{1,2}[\/\-]\d{1,2}[\/\-]\d{4})
     <<"(", "?", ":", "e", "x", "p", "i", "r", "[", "e", "y", "]", "|", "v",
           "a", "l", "i", "d", "|", "e", "x", "p", "i", "r", "e", "s", "?", ")",
           "(", "?", ":", "\\", "s", "+", "(", "?", ":", "d", "a", "t", "e", "|",
           "o", "n", "|", "u", "n", "t", "i", "l", "|", "t", "h", "r", "o", "u",
           "g", "h", "|", "t", "h", "r", "u", ")", ")", "?", "\\", "s", "*", ":",
           "?", "\\", "s", "*", "(", "\\", "d", "{", "1", ",", "2", "}", "[",
           "\\", "/", "\\", "-", "]", "\\", "d", "{", "1", ",", "2", "}", "[",
           "\\", "/", "\\", "-", "]", "\\", "d", "{", "4", "}", ")">>,
     \* (?:expir[ey]|valid|expires?)(?:\s+(?:date|on|until|through|thru))?\s*:?\s*(\d{4}[\/\-]\d{1,2}[\/\-]\d{1,2})
     <<"(", "?", ":", "e", "x", "p", "i", "r", "[", "e", "y", "]", "|", "v",
           "a", "l", "i", "d", "|", "e", "x", "p", "i", "r", "e", "s", "?", ")",
           "(", "?", ":", "\\", "s", "+", "(", "?", ":", "d", "a", "t", "e", "|",
           "o", "n", "|", "u", "n", "t", "i", "l", "|", "t", "h", "r", "o", "u",
           "g", "h", "|", "t", "h", "r", "u", ")", ")", "?", "\\", "s", "*", ":",
           "?", "\\", "s", "*", "(", "\\", "d", "{", "4", "}", "[", "\\", "/",
           "\\", "-", "]", "\\", "d", "{", "1", ",", "2", "}", "[", "\\", "/",
           "\\", "-", "]", "\\", "d", "{", "1", ",", "2", "}", ")">>,
     \* (?:valid\s+(?:until|through|thru))\s*:?\s*([a-z]+ \d{1,2},?\s+\d{4})
     <<"(", "?", ":", "v", "a", "l", "i", "d", "\\", "s", "+", "(", "?", ":",
           "u", "n", "t", "i", "l", "|", "t", "h", "r", "o", "u", "g", "h", "|",
           "t", "h", "r", "u", ")", ")", "\\", "s", "*", ":", "?", "\\", "s",
           "*", "(", "[", "a", "-", "z", "]", "+", " ", "\\", "d", "{", "1", ",",
           "2", "}", ",", "?", "\\", "s", "+", "\\", "d", "{", "4", "}", ")">>,
     \* (?:valid\s+(?:until|through|thru))\s*:?\s*(\d{1,2}[\/\-]\d{1,2}[\/\-]\d{4})
     <<"(", "?", ":", "v", "a", "l", "i", "d", "\\", "s", "+", "(", "?", ":",
           "u", "n", "t", "i", "l", "|", "t", "h", "r", "o", "u", "g", "h", "|",
           "t", "h", "r", "u", ")", ")", "\\", "s", "*", ":", "?", "\\", "s",
           "*", "(", "\\", "d", "{", "1", ",", "2", "}", "[", "\\", "/", "\\",
           "-", "]", "\\", "d", "{", "1", ",", "2", "}", "[", "\\", "/", "\\",
           "-", "]", "\\", "d", "{", "4", "}", ")">>,
     \* (?:valid\s+(?:until|through|thru))\s*:?\s*(\d{4}[\/\-]\d{1,2}[\/\-]\d{1,2})
     <<"(", "?", ":", "v", "a", "l", "i", "d", "\\", "s", "+", "(", "?", ":",
           "u", "n", "t", "i", "l", "|", "t", "h", "r", "o", "u", "g", "h", "|",
           "t", "h", "r", "u", ")", ")", "\\", "s", "*", ":", "?", "\\", "s",
           "*", "(", "\\", "d", "{", "4", "}", "[", "\\", "/", "\\", "-", "]",
           "\\", "d", "{", "1", ",", "2", "}", "[", "\\", "/", "\\", "-", "]",
           "\\", "d", "{", "1", ",", "2", "}", ")">>,
     \* expir[ey].*?([a-z]+ \d{1,2},?\s+\d{4})
     <<"e", "x", "p", "i", "r", "[", "e", "y", "]", ".", "*", "?", "(", "[",
           "a", "-", "z", "]", "+", " ", "\\", "d", "{", "1", ",", "2", "}", ",",
           "?", "\\", "s", "+", "\\", "d", "{", "4", "}", ")">>,
     \* expir[ey].*?(\d{1,2}[\/\-]\d{1,2}[\/\-]\d{4})
     <<"e", "x", "p", "i", "r", "[", "e", "y", "]", ".", "*", "?", "(", "\\",
           "d", "{", "1", ",", "2", "}", "[", "\\", "/", "\\", "-", "]", "\\",
           "d", "{", "1", ",", "2", "}", "[", "\\", "/", "\\", "-", "]", "\\",
           "d", "{", "4", "}", ")">>,
     \* expir[ey].*?(\d{4}[\/\-]\d{1,2}[\/\-]\d{1,2})
     <<"e", "x", "p", "i", "r", "[", "e", "y", "]", ".", "*", "?", "(", "\\",
           "d", "{", "4", "}", "[", "\\", "/", "\\", "-", "]", "\\", "d", "{",
           "1", ",", "2", "}", "[", "\\", "/", "\\", "-", "]", "\\", "d", "{",
           "1", ",", "2", "}", ")">>
    >>

\* a table of sticky regexes
patternFlags_Sticky == <<"i", "y">>

\* the flags of the regex literals of datePatterns
patternFlags == <<"i">>

\* DateExtractor.datePatterns
datePatterns ==
    <<[re |-> Cat(<<Label, Qualifier, Colon, NamedMonthDate>>),
       flags |-> patternFlags, source |-> Sources[1]],
      [re |-> Cat(<<Label, Qualifier, Colon, SlashedDate>>),
       flags |-> patternFlags, source |-> Sources[2]],
      [re |-> Cat(<<Label, Qualifier, Colon, YearFirstDate>>),
       flags |-> patternFlags, source |-> Sources[3]],
      [re |-> Cat(<<ValidUntil, Colon, NamedMonthDate>>),
       flags |-> patternFlags, source |-> Sources[4]],
      [re |-> Cat(<<ValidUntil, Colon, SlashedDate>>),
       flags |-> patternFlags, source |-> Sources[5]],
      [re |-> Cat(<<ValidUntil, Colon, YearFirstDate>>),
       flags |-> patternFlags, source |-> Sources[6]],
      [re |-> Cat(<<Loose, NamedMonthDate>>),
       flags |-> patternFlags, source |-> Sources[7]],
      [re |-> Cat(<<Loose, SlashedDate>>),
       flags |-> patternFlags, source |-> Sources[8]],
      [re |-> Cat(<<Loose, YearFirstDate>>),
       flags |-> patternFlags, source |-> Sources[9]]>>

\* RegExp.prototype.exec as String.prototype.match calls it for a regex
\* without the g flag: lastIndex is read and written only by a sticky regex,
\* which matches at lastIndex or not at all
exec(pattern, str, lastIndex) ==
    IF \A i \in DOMAIN pattern.flags : pattern.flags[i] # "y"
    THEN [m |-> match(str, pattern.re), lastIndex |-> lastIndex]
    ELSE IF lastIndex > Len(str) THEN [m |-> NoMatch, lastIndex |-> 0]
    ELSE LET ms == Ends(pattern.re, str, lastIndex + 1)
         IN  IF ms # <<>>
             THEN [m |-> [found |-> TRUE, index |-> lastIndex + 1,
                          e |-> ms[1].e, c |-> ms[1].c],
                   lastIndex |-> ms[1].e - 1]
             ELSE [m |-> NoMatch, lastIndex |-> 0]

cleanText(text) == trim(collapseWhiteSpace(text))

\* the loop of extractExpiryDate from pattern k on
RECURSIVE extractFrom(_, _, _, _, _)
extractFrom(patterns, k, clean, t, lastIndex) ==
    IF k > Len(patterns) THEN [date |-> Null, confidence |-> 0, lastIndex |-> lastIndex]
    ELSE LET x == exec(patterns[k], clean, lastIndex[k])
             m == x.m
             after == [lastIndex EXCEPT ![k] = x.lastIndex]
         IN  IF m.found
             THEN LET parsedDate == parseDate(group(clean, m, 1))
                  IN  IF parsedDate # Null /\ isValidExpiryDate(parsedDate, t)
                      THEN [date |-> parsedDate,
                            confidence |->
                                calculateConfidence(patterns[k], matched(clean, m)),
                            lastIndex |-> after]
                      ELSE extractFrom(patterns, k + 1, clean, t, after)
             ELSE extractFrom(patterns, k + 1, clean, t, after)

\* an extraction that lets the first pattern that matches decide
extractExpiryDate_FirstMatchDecides(text, t, lastIndex) ==
    LET clean == cleanText(text)
        hits == {k \in DOMAIN datePatterns : match(clean, datePatterns[k].re).found}
    IN  IF hits = {} THEN [date |-> Null, confidence |-> 0, lastIndex |-> lastIndex]
        ELSE LET k == CHOOSE h \in hits : \A j \in hits : h <= j
                 m == match(clean, datePatterns[k].re)
                 parsedDate == parseDate(group(clean, m, 1))
             IN  IF parsedDate # Null /\ isValidExpiryDate(parsedDate, t)
                 THEN [date |-> parsedDate,
                       confidence |->
                           calculateConfidence(datePatterns[k], matched(clean, m)),
                       lastIndex |-> lastIndex]
                 ELSE [date |-> Null, confidence |-> 0, lastIndex |-> lastIndex]

\* an extraction that scores the first match even when it is rejected
extractExpiryDate_ScoresRejected(text, t, lastIndex) ==
    LET clean == cleanText(text)
        hits == {k \in DOMAIN datePatterns : match(clean, datePatterns[k].re).found}
        found == extractFrom(datePatterns, 1, clean, t, lastIndex)
    IN  IF found.date # Null \/ hits = {} THEN found
        ELSE LET k == CHOOSE h \in hits : \A j \in hits : h <= j
             IN  [date |-> Null,
                  confidence |->
                      calculateConfidence(datePatterns[k],
                          matched(clean, match(clean, datePatterns[k].re))),
                  lastIndex |-> found.lastIndex]

\* DateExtractor.extractExpiryDate, called at instant t with the regexes of
\* the table standing at lastIndex
extractExpiryDate(text, t, lastIndex) ==
    extractFrom(datePatterns, 1, cleanText(text), t, lastIndex)

-----------------------------------------------------------------------------
(* The extractor as a state machine: scanned texts arrive one after the    *)
(* other at the shared dateExtractor, the clock standing at xNow.           *)

LocalTime(year, month, day, hour) ==
    daysFromCivil(year, month, day) * HoursPerDay + hour

\* 2026-12-31 lies exactly five years of 365 days after (before) the second
\* (third) instant, and one hour outside that window at the instants next to them
ExtractInstants ==
    {LocalTime(2026, 11, 4, 12),
     LocalTime(2026, 12, 31, 0) - 5 * 365 * HoursPerDay,
     LocalTime(2026, 12, 31, 0) - 5 * 365 * HoursPerDay - 1,
     LocalTime(2026, 12, 31, 0) + 5 * 365 * HoursPerDay,
     LocalTime(2026, 12, 31, 0) + 5 * 365 * HoursPerDay + 1,
     LocalTime(2027, 6, 1, 9)}

\* decimal digits of a number, as the documents print them
twoDigits(n) ==
    LET d == <<"0", "1", "2", "3", "4", "5", "6", "7", "8", "9">>
    IN  <<d[n \div 10 + 1], d[(n % 10) + 1]>>

fourDigits(n) == twoDigits(n \div 100) \o twoDigits(n % 100)

\* the text "Expiry Date: MM/DD/YYYY"
ExpiryDateText(month, day, year) ==
    <<"E", "x", "p", "i", "r", "y", " ", "D", "a", "t", "e", ":", " ">>
    \o twoDigits(month) \o <<"/">> \o twoDigits(day) \o <<"/">> \o fourDigits(year)

\* the <<month, day, year>> of the labelled texts
LabelledDays == {<<12, 31, 2026>>, <<2, 28, 2027>>, <<1, 5, 2027>>, <<6, 30, 2031>>}

Texts ==
    {
     \* 'Expiry Date: 12/31/2026'
     <<"E", "x", "p", "i", "r", "y", " ", "D", "a", "t", "e", ":", " ", "1",
           "2", "/", "3", "1", "/", "2", "0", "2", "6">>,
     \* 'no relevant content here'
     <<"n", "o", " ", "r", "e", "l", "e", "v", "a", "n", "t", " ", "c", "o",
           "n", "t", "e", "n", "t", " ", "h", "e", "r", "e">>,
     \* ''
     <<>>,
     \* '   '
     <<" ", " ", " ">>,
     \* 'Expires:  December 31,\n2026'
     <<"E", "x", "p", "i", "r", "e", "s", ":", " ", " ", "D", "e", "c", "e",
           "m", "b", "e", "r", " ", "3", "1", ",", "\n", "2", "0", "2", "6">>,
     \* 'Valid until 2027-01-15'
     <<"V", "a", "l", "i", "d", " ", "u", "n", "t", "i", "l", " ", "2", "0",
           "2", "7", "-", "0", "1", "-", "1", "5">>,
     \* 'Valid until: 06/30/2027. Expires January 5, 2027'
     <<"V", "a", "l", "i", "d", " ", "u", "n", "t", "i", "l", ":", " ", "0",
           "6", "/", "3", "0", "/", "2", "0", "2", "7", ".", " ", "E", "x", "p",
           "i", "r", "e", "s", " ", "J", "a", "n", "u", "a", "r", "y", " ", "5",
           ",", " ", "2", "0", "2", "7">>,
     \* 'Expiry date 31 2026 valid until 06/30/2027'
     <<"E", "x", "p", "i", "r", "y", " ", "d", "a", "t", "e", " ", "3", "1",
           " ", "2", "0", "2", "6", " ", "v", "a", "l", "i", "d", " ", "u", "n",
           "t", "i", "l", " ", "0", "6", "/", "3", "0", "/", "2", "0", "2", "7">>,
     \* 'Expires December 31, 2040 valid until 06/30/2027'
     <<"E", "x", "p", "i", "r", "e", "s", " ", "D", "e", "c", "e", "m", "b",
           "e", "r", " ", "3", "1", ",", " ", "2", "0", "4", "0", " ", "v", "a",
           "l", "i", "d", " ", "u", "n", "t", "i", "l", " ", "0", "6", "/", "3",
           "0", "/", "2", "0", "2", "7">>,
     \* 'Expiry Date: 12/31/2036'
     <<"E", "x", "p", "i", "r", "y", " ", "D", "a", "t", "e", ":", " ", "1",
           "2", "/", "3", "1", "/", "2", "0", "3", "6">>,
     \* 'certificate expired long ago on 03/15/2025'
     <<"c", "e", "r", "t", "i", "f", "i", "c", "a", "t", "e", " ", "e", "x",
           "p", "i", "r", "e", "d", " ", "l", "o", "n", "g", " ", "a", "g", "o",
           " ", "o", "n", " ", "0", "3", "/", "1", "5", "/", "2", "0", "2", "5">>,
     \* 'Valid March 3, 2040 then valid through March 3, 2027'
     <<"V", "a", "l", "i", "d", " ", "M", "a", "r", "c", "h", " ", "3", ",",
           " ", "2", "0", "4", "0", " ", "t", "h", "e", "n", " ", "v", "a", "l",
           "i", "d", " ", "t", "h", "r", "o", "u", "g", "h", " ", "M", "a", "r",
           "c", "h", " ", "3", ",", " ", "2", "0", "2", "7">>,
     \* 'expires soon: 03/15/2027'
     <<"e", "x", "p", "i", "r", "e", "s", " ", "s", "o", "o", "n", ":", " ",
           "0", "3", "/", "1", "5", "/", "2", "0", "2", "7">>,
     \* 'Expiry Date: 13/45/2026'
     <<"E", "x", "p", "i", "r", "y", " ", "D", "a", "t", "e", ":", " ", "1",
           "3", "/", "4", "5", "/", "2", "0", "2", "6">>,
     \* 'Expiry Date: foo'
     <<"E", "x", "p", "i", "r", "y", " ", "D", "a", "t", "e", ":", " ", "f",
           "o", "o">>,
     \* 'Expiry Date: 31/12/2026'
     <<"E", "x", "p", "i", "r", "y", " ", "D", "a", "t", "e", ":", " ", "3",
           "1", "/", "1", "2", "/", "2", "0", "2", "6">>,
     \* 'invalid 12/31/2026'
     <<"i", "n", "v", "a", "l", "i", "d", " ", "1", "2", "/", "3", "1", "/",
           "2", "0", "2", "6">>,
     \* 'EXPIRY DATE: 12/31/2026'
     <<"E", "X", "P", "I", "R", "Y", " ", "D", "A", "T", "E", ":", " ", "1",
           "2", "/", "3", "1", "/", "2", "0", "2", "6">>,
     \* 'Valid thru Sept 30, 2026'
     <<"V", "a", "l", "i", "d", " ", "t", "h", "r", "u", " ", "S", "e", "p",
           "t", " ", "3", "0", ",", " ", "2", "0", "2", "6">>,
     \* 'Expiry Date: February 31, 2027'
     <<"E", "x", "p", "i", "r", "y", " ", "D", "a", "t", "e", ":", " ", "F",
           "e", "b", "r", "u", "a", "r", "y", " ", "3", "1", ",", " ", "2", "0",
           "2", "7">>,
     \* 'Expiry 2026-12-31 or expiry 12-31-2026'
     <<"E", "x", "p", "i", "r", "y", " ", "2", "0", "2", "6", "-", "1", "2",
           "-", "3", "1", " ", "o", "r", " ", "e", "x", "p", "i", "r", "y", " ",
           "1", "2", "-", "3", "1", "-", "2", "0", "2", "6">>,
     \* 'Issued 01/01/2020 \t expires on 1/5/2027'
     <<"I", "s", "s", "u", "e", "d", " ", "0", "1", "/", "0", "1", "/", "2",
           "0", "2", "0", " ", "\t", " ", "e", "x", "p", "i", "r", "e", "s", " ",
           "o", "n", " ", "1", "/", "5", "/", "2", "0", "2", "7">>,
     \* 'Expiry: Foo 31, 2026'
     <<"E", "x", "p", "i", "r", "y", ":", " ", "F", "o", "o", " ", "3", "1",
            ",", " ", "2", "0", "2", "6">>
    }
    \cup {ExpiryDateText(mdy[1], mdy[2], mdy[3]) : mdy \in LabelledDays}

InitExtract ==
    /\ StorageIdle
    /\ ClientIdle
    /\ ClassifyIdle
    /\ NormalizeIdle
    /\ xNow \in ExtractInstants
    /\ xText = <<>>
    /\ xOut = [op |-> "none"]
    /\ xLastIndex = [k \in DOMAIN datePatterns |-> 0]
    /\ xEarlier = FALSE

ExtractExpiryDate(text) ==
    \E result \in {extractExpiryDate(text, xNow, xLastIndex)} :
        /\ xText' = text
        /\ xOut' = [op |-> "extractExpiryDate",
                    val |-> [date |-> result.date, confidence |-> result.confidence]]
        /\ xLastIndex' = result.lastIndex
        /\ xEarlier' = (xOut.op # "none")
        /\ UNCHANGED <<xNow, storageVars, classifyVars, normalizeVars, clientVars>>

NextExtract == \E text \in Texts : ExtractExpiryDate(text)

SpecExtract == InitExtract /\ [][NextExtract]_vars

-----------------------------------------------------------------------------
(* shared/schema.ts: toDate, the normalizer of the subscription schemas *)

DaysInMonth(year, month) ==
    daysFromCivil(IF month = 12 THEN year + 1 ELSE year,
                  IF month = 12 THEN 1 ELSE month + 1, 1)
    - daysFromCivil(year, month, 1)

\* \d{n}
DigitRun(n) == Rep(Class(Digits), n, n, TRUE)

\* /^(\d{2})\/(\d{2})\/(\d{4})$/ and /^(\d{2})-(\d{2})-(\d{4})$/
dmY(sep) ==
    Cat(<<Bol, Cap(DigitRun(2)), Chr({sep}), Cap(DigitRun(2)), Chr({sep}),
          Cap(DigitRun(4)), Eol>>)

\* /^\d{4}-\d{2}-\d{2}$/
BareDate ==
    Cat(<<Bol, DigitRun(4), Chr({"-"}), DigitRun(2), Chr({"-"}), DigitRun(2), Eol>>)

\* /^\d{4}-\d{2}-\d{2} \d{2}:\d{2}:\d{2}$/
SpacedDateTime ==
    Cat(<<Bol, DigitRun(4), Chr({"-"}), DigitRun(2), Chr({"-"}), DigitRun(2),
          Chr({" "}), DigitRun(2), Chr({":"}), DigitRun(2), Chr({":"}),
          DigitRun(2), Eol>>)

\* new Date(string) in toDate.  An ISO date-time is local time (the model's
\* zone is UTC, so a trailing Z changes nothing), whole hours kept.  A day
\* 29..31 past the end of its month is carried into the next month by a
\* lenient engine (V8) and is an Invalid Date for a strict one.  Any other
\* string is read as newDateFromString reads it.
newDateFromIso(str, lenient) ==
    LET \* YYYY-MM-DDTHH:mm:ss, Z optional
        IsoDateTime ==
            Cat(<<Bol, Cap(DigitRun(4)), Chr({"-"}), Cap(DigitRun(2)), Chr({"-"}),
                  Cap(DigitRun(2)), Chr({"t"}), Cap(DigitRun(2)), Chr({":"}),
                  Cap(DigitRun(2)), Chr({":"}), Cap(DigitRun(2)),
                  Opt(Chr({"z"})), Eol>>)
        m == match(str, IsoDateTime)
    IN  IF ~m.found THEN newDateFromString(str)
        ELSE LET year == parseInt(group(str, m, 1))
                 month == parseInt(group(str, m, 2))
                 day == parseInt(group(str, m, 3))
                 hour == parseInt(group(str, m, 4))
             IN  IF \/ month < 1 \/ month > 12 \/ day < 1 \/ day > 31
                    \/ hour > 24
                    \/ parseInt(group(str, m, 5)) > 59
                    \/ parseInt(group(str, m, 6)) > 59
                    \/ (day > DaysInMonth(year, month) /\ ~lenient)
                 THEN InvalidDate
                 ELSE DateAt((daysFromCivil(year, month, 1) + day - 1) * HoursPerDay
                             + hour)

\* const d = new Date(iso); if (!isNaN(d.getTime())) return d;
\* return new Date(`${iso}Z`)
orWithZ(iso, lenient) ==
    LET d == newDateFromIso(iso, lenient)
    IN  IF ~d.nan THEN d ELSE newDateFromIso(iso \o <<"Z">>, lenient)

\* a toDate that reads the numeric layouts as month, day, year
toDate_MonthFirst(val, lenient) ==
    LET str == trim(val)
        slash == match(str, dmY("/"))
        dash == match(str, dmY("-"))
        Midnight == <<"T", "0", "0", ":", "0", "0", ":", "0", "0">>
        isoOf(m) == group(str, m, 3) \o <<"-">> \o group(str, m, 1) \o <<"-">>
                    \o group(str, m, 2) \o Midnight
    IN  IF slash.found THEN orWithZ(isoOf(slash), lenient)
        ELSE IF dash.found THEN orWithZ(isoOf(dash), lenient)
        ELSE orWithZ(str, lenient)

\* toDate of a string value
toDate(val, lenient) ==
    LET str == trim(val)
        slash == match(str, dmY("/"))
        dash == match(str, dmY("-"))
        \* `${yyyy}-${mm}-${dd}T00:00:00`
        Midnight == <<"T", "0", "0", ":", "0", "0", ":", "0", "0">>
        isoOf(m) == group(str, m, 3) \o <<"-">> \o group(str, m, 2) \o <<"-">>
                    \o group(str, m, 1) \o Midnight
        \* str.replace(' ', 'T'): the first space
        firstSpace == CHOOSE k \in DOMAIN str :
                          str[k] = " " /\ \A j \in 1..(k - 1) : str[j] # " "
    IN  IF slash.found THEN orWithZ(isoOf(slash), lenient)
        ELSE IF dash.found THEN orWithZ(isoOf(dash), lenient)
        ELSE IF match(str, BareDate).found THEN orWithZ(str \o Midnight, lenient)
        ELSE IF match(str, SpacedDateTime).found
        THEN orWithZ([str EXCEPT ![firstSpace] = "T"], lenient)
        ELSE orWithZ(str, lenient)

-----------------------------------------------------------------------------
(* The two normalizers as a state machine: a date string arrives and is     *)
(* handed to DateExtractor.parseDate or to toDate.                          *)

\* <<day, month, year>> of calendar days that exist
RealDays ==
    {<<31, 12, 2026>>, <<5, 1, 2027>>, <<1, 5, 2027>>, <<12, 12, 2026>>,
     <<29, 2, 2024>>, <<28, 2, 2027>>, <<30, 6, 2027>>, <<15, 8, 2026>>,
     <<13, 1, 2027>>, <<31, 1, 2028>>, <<1, 12, 2026>>, <<7, 7, 2027>>}

\* <<day, month, year>> of days no calendar has
NonExistentDays ==
    {<<31, 2, 2024>>, <<30, 2, 2027>>, <<29, 2, 2027>>, <<31, 4, 2027>>,
     <<31, 6, 2026>>, <<31, 11, 2026>>, <<2, 31, 2024>>, <<4, 31, 2027>>}

Separators == {"/", "-"}

\* the string DD/MM/YYYY or DD-MM-YYYY
DayFirstText(day, month, year, sep) ==
    twoDigits(day) \o <<sep>> \o twoDigits(month) \o <<sep>> \o fourDigits(year)

NumericStrings ==
    {DayFirstText(dmy[1], dmy[2], dmy[3], sep) :
        dmy \in RealDays \cup NonExistentDays, sep \in Separators}

\* the strings handed to the normalizers
DateStrings ==
    NumericStrings \cup
    {
     \* 'March 3, 2027'
     <<"M", "a", "r", "c", "h", " ", "3", ",", " ", "2", "0", "2", "7">>,
     \* 'Foo 31, 2026'
     <<"F", "o", "o", " ", "3", "1", ",", " ", "2", "0", "2", "6">>,
     \* 'February 31, 2027'
     <<"F", "e", "b", "r", "u", "a", "r", "y", " ", "3", "1", ",", " ", "2",
       "0", "2", "7">>,
     \* 'Sept 30 2026'
     <<"S", "e", "p", "t", " ", "3", "0", " ", "2", "0", "2", "6">>,
     \* 'december 45, 2026'
     <<"d", "e", "c", "e", "m", "b", "e", "r", " ", "4", "5", ",", " ", "2",
       "0", "2", "6">>,
     \* '2027-01-15'
     <<"2", "0", "2", "7", "-", "0", "1", "-", "1", "5">>,
     \* '2024-02-31'
     <<"2", "0", "2", "4", "-", "0", "2", "-", "3", "1">>,
     \* '2024/02/31'
     <<"2", "0", "2", "4", "/", "0", "2", "/", "3", "1">>,
     \* '2026-12-31 10:00:00'
     <<"2", "0", "2", "6", "-", "1", "2", "-", "3", "1", " ", "1", "0", ":",
       "0", "0", ":", "0", "0">>,
     \* ''
     <<>>,
     \* 'foo'
     <<"f", "o", "o">>,
     \* ' 05/01/2027 '
     <<" ", "0", "5", "/", "0", "1", "/", "2", "0", "2", "7", " ">>
    }

InitNormalize ==
    /\ StorageIdle
    /\ ClientIdle
    /\ ClassifyIdle
    /\ ExtractIdle
    /\ NormalizeIdle

ParseDate(dateStr) ==
    /\ nIn' = dateStr
    /\ nOut' = [op |-> "parseDate", val |-> parseDate(dateStr),
                tried |-> parseFormats(1, trim(dateStr)).tried]
    /\ UNCHANGED <<storageVars, classifyVars, extractVars, clientVars>>

ToDate(val, lenient) ==
    /\ nIn' = val
    /\ nOut' = [op |-> "toDate", val |-> toDate(val, lenient)]
    /\ UNCHANGED <<storageVars, classifyVars, extractVars, clientVars>>

NextNormalize ==
    \/ \E dateStr \in DateStrings : ParseDate(dateStr)
    \/ \E val \in DateStrings, lenient \in BOOLEAN : ToDate(val, lenient)

SpecNormalize == InitNormalize /\ [][NextNormalize]_vars

-----------------------------------------------------------------------------
(* Properties *)

SingleOps == {"getCertificate", "createCertificate", "updateCertificate",
              "getSubscription", "createSubscription", "updateSubscription"}
ListOps == {"getCertificates", "searchCertificates", "getSubscriptions"}
ReadOps == {"getCertificate", "getCertificates", "searchCertificates",
            "getSubscription", "getSubscriptions"}
WriteOps == {"createCertificate", "updateCertificate",
             "createSubscription", "updateSubscription"}

\* the records the storage call just made returned
RetRecords ==
    CASE ret.op \in SingleOps -> IF ret.val = undefined THEN {} ELSE {ret.val}
      [] ret.op \in ListOps -> Range(ret.val)
      [] OTHER -> {}

ExpiryOf(r) == IF "expiryDate" \in DOMAIN r THEN r.expiryDate ELSE r.endDate

\* the stored certificates, without derived fields
StoredCerts ==
    IF useInMemory
    THEN {[id |-> items[i].id, expiryDate |-> items[i].expiryDate] : i \in DOMAIN items}
    ELSE certificates

\* the call just made enriched what it returned
Enriching == ret.op \in WriteOps \/ (~useInMemory /\ ret.op \in ReadOps)

windowDays == 30

\* the classification rule, from the derived fields
Classify(expiryDate, t, window) ==
    IF isExpired(expiryDate, t) THEN "expired"
    ELSE IF calculateDaysUntilExpiry(expiryDate, t) <= window THEN "expiring"
    ELSE "valid"

\* C1: the derived fields of every record a read returns are those computed
\* from its stored expiry instant and the clock at the time of the read; a
\* record whose expiry the clock has passed is returned with isExpired = TRUE.
C1_FreshOnRead ==
    ret.op \in ReadOps =>
        \A r \in RetRecords :
            /\ r.isExpired = (now > ExpiryOf(r))
            /\ r.daysUntilExpiry = Ceil(ExpiryOf(r) - now, DAY)

\* C2 as stated: an enriched record has isExpired = TRUE iff daysUntilExpiry < 0.
C2_ExpiredIffNegativeDays ==
    cOut.op \in {"enrichCertificate", "enrichSubscription"} =>
        (cOut.val.isExpired <=> cOut.val.daysUntilExpiry < 0)

\* C2 amended: daysUntilExpiry < 0 implies isExpired, isExpired implies
\* daysUntilExpiry <= 0, and the two differ (isExpired with daysUntilExpiry = 0)
\* exactly when the expiry lies less than one day in the past.
C2_ExpiredVersusDays ==
    cOut.op \in {"enrichCertificate", "enrichSubscription"} =>
        /\ cOut.val.daysUntilExpiry < 0 => cOut.val.isExpired
        /\ cOut.val.isExpired => cOut.val.daysUntilExpiry <= 0
        /\ (cOut.val.isExpired /\ cOut.val.daysUntilExpiry = 0)
              <=> (cExpiry < cNow /\ cNow - cExpiry < DAY)

C2_Witness ==
    /\ cOut.op = "enrichCertificate"
    /\ cNow - cExpiry = 1
    /\ cOut.val.isExpired
    /\ cOut.val.daysUntilExpiry = 0

\* C3: with the 30-day window a certificate is Expired when now > expiry, else
\* ExpiringSoon when daysUntilExpiry <= 30, else Valid (now + 30 days: expiring
\* with 30 days; now + 31 days: valid; now - 1 second: expired, days <= 0), and
\* the status filter and the statistics put every stored certificate in the
\* bucket this rule names.
C3_BucketsFollowRule ==
    /\ (ret.op = "getCertificates" /\ ret.params.status # "all") =>
          /\ \A r \in Range(ret.val) :
                Classify(r.expiryDate, now, windowDays) = ret.params.status
          /\ (ret.params.offset = 0 /\ ret.params.limit >= Cardinality(StoredCerts)) =>
                {r.id : r \in Range(ret.val)} =
                    {c.id : c \in {x \in StoredCerts :
                        Classify(x.expiryDate, now, windowDays) = ret.params.status}}
    /\ ret.op = "getCertificateStats" =>
          \A st \in {"expired", "expiring", "valid"} :
              ret.val[st] = Cardinality({c \in StoredCerts :
                                Classify(c.expiryDate, now, windowDays) = st})
    /\ Enriching =>
          \A r \in RetRecords :
              /\ ExpiryOf(r) = now + 30 * DAY =>
                    /\ r.daysUntilExpiry = 30
                    /\ ~r.isExpired
                    /\ Classify(ExpiryOf(r), now, windowDays) = "expiring"
              /\ ExpiryOf(r) = now + 31 * DAY =>
                    /\ ~r.isExpired
                    /\ r.daysUntilExpiry > windowDays
                    /\ Classify(ExpiryOf(r), now, windowDays) = "valid"
              /\ ExpiryOf(r) = now - 1 =>
                    /\ r.isExpired
                    /\ r.daysUntilExpiry <= 0
                    /\ Classify(ExpiryOf(r), now, windowDays) = "expired"

C3_Witness ==
    /\ ret.op = "getCertificates"
    /\ ret.params.status = "expiring"
    /\ \E r \in Range(ret.val) : r.expiryDate = now + 30 * DAY
    /\ \E c \in StoredCerts : c.expiryDate = now + 31 * DAY

\* C4: daysUntilExpiry is the ceiling of (expiry - now) in days of 86,400,000 ms:
\* the integer n with (n - 1) days < expiry - now <= n days; 23.1 hours
\* remaining give 1, and the value is negative only when at least one full day
\* overdue.
C4_CeilingOfDays ==
    cOut.op \in {"enrichCertificate", "enrichSubscription"} =>
        LET n == cOut.val.daysUntilExpiry
            diff == cExpiry - cNow
        IN  /\ (n - 1) * DAY < diff
            /\ diff <= n * DAY
            /\ (diff > 0 => n >= 1)
            /\ (diff = 83160 => n = 1)
            /\ (n < 0 <=> cNow - cExpiry >= DAY)

C4_Witness ==
    /\ cOut.op = "enrichSubscription"
    /\ cExpiry - cNow = 83160
    /\ cOut.val.daysUntilExpiry = 1

\* C5: isExpired is TRUE exactly when now is strictly later than the expiry
\* instant; a certificate whose expiry equals the evaluation instant is not
\* expired and is not in the expired bucket of the filter or the statistics.
C5_StrictlyLater ==
    /\ Enriching => \A r \in RetRecords : r.isExpired <=> now > ExpiryOf(r)
    /\ ret.op = "getCertificateStats" =>
          ret.val.expired = Cardinality({c \in StoredCerts : now > c.expiryDate})
    /\ (ret.op = "getCertificates" /\ ret.params.status = "expired") =>
          \A r \in Range(ret.val) : now > r.expiryDate

C5_Witness ==
    /\ ret.op = "getCertificateStats"
    /\ \E c \in StoredCerts : c.expiryDate = now
    /\ ret.val.expired = 0
    /\ ret.val.expiring >= 1

\* C6 as stated: the card shows the expiring-soon state exactly when the
\* certificate is not expired and its remaining days are <= 15, and Valid only
\* when more than 15 days remain.
C6_FifteenDayWindow ==
    cOut.op = "CertificateCard" =>
        /\ cOut.val.status = "days" <=>
              (~cOut.val.isExpired /\ cOut.val.daysRemaining <= COUNTDOWN_WINDOW_DAYS)
        /\ cOut.val.status = "Valid" => cOut.val.daysRemaining > COUNTDOWN_WINDOW_DAYS

\* C6 amended: the card shows the expiring-soon state exactly when the
\* certificate is not expired and at most 6 whole days remain (40 percent of the
\* 15-day countdown window), and Valid only when 7 or more whole days remain.
C6_FortyPercentOfWindow ==
    cOut.op = "CertificateCard" =>
        /\ cOut.val.status = "days" <=> (cNow <= cExpiry /\ cExpiry - cNow < 7 * DAY)
        /\ cOut.val.status = "Valid" <=> cExpiry - cNow >= 7 * DAY
        /\ cOut.val.status = "Expired" <=> cNow > cExpiry

C6_Witness ==
    /\ cOut.op = "CertificateCard"
    /\ cExpiry - cNow = 7 * DAY
    /\ cOut.val.status = "Valid"

\* C7: for every subscription progressPercentage is
\* ((365 - daysUntilExpiry) / 365) * 100 clamped to [0, 100]: within [0, 100],
\* exactly 0 when daysUntilExpiry >= 365, exactly 100 when daysUntilExpiry <= 0.
SubRecords == Range(subscriptionItems) \cup RetRecords

C8_NonIncreasingAsDaysDecrease ==
    \A r \in SubRecords :
        /\ (0 <= r.daysUntilExpiry /\ r.daysUntilExpiry <= totalDays) =>
              \A fewer \in 0..r.daysUntilExpiry :
                  progressPercentage(fewer) <= r.progressPercentage
        /\ (r.daysUntilExpiry < 0 \/ r.daysUntilExpiry > totalDays) =>
              r.progressPercentage \in {0, 100 * PctUnit}

\* the match of pattern k in the cleaned text, and the date it proposes
MatchOf(k) == match(cleanText(xText), datePatterns[k].re)
CandidateOf(k) == parseDate(group(cleanText(xText), MatchOf(k), 1))

\* pattern k matches, its captured substring normalizes, and the date passes
\* the plausibility filter
Accepted(k) ==
    /\ MatchOf(k).found
    /\ CandidateOf(k) # Null
    /\ isValidExpiryDate(CandidateOf(k), xNow)

Rejected(k) == MatchOf(k).found /\ ~Accepted(k)

\* C9: for every input text the confidence extractExpiryDate returns lies in
\* [0, 0.95], and it is 0 if and only if the returned date is null.
C9_ConfidenceRange ==
    xOut.op = "extractExpiryDate" =>
        /\ xOut.val.confidence >= 0
        /\ xOut.val.confidence <= 95
        /\ xOut.val.confidence = 0 <=> xOut.val.date = Null

C9_Witness ==
    /\ xOut.op = "extractExpiryDate"
    /\ xOut.val.date # Null
    /\ xOut.val.confidence = 95
    /\ \E k \in DOMAIN datePatterns :
          /\ Accepted(k)
          /\ calculateConfidence_NoCap(datePatterns[k],
                                       matched(cleanText(xText), MatchOf(k))) > 95

\* C10: extractExpiryDate returns the date of the first pattern of the list
\* whose match normalizes and passes the plausibility filter, wherever in the
\* text that match lies; a pattern of higher priority whose capture is
\* rejected does not end the search, and the result is null only when no
\* pattern is accepted.
C10_PatternOrderGoverns ==
    xOut.op = "extractExpiryDate" =>
        LET accepted == {k \in DOMAIN datePatterns : Accepted(k)}
        IN  IF accepted = {} THEN xOut.val.date = Null
            ELSE LET first == CHOOSE k \in accepted : \A j \in accepted : k <= j
                 IN  xOut.val.date = CandidateOf(first)

\* a pattern of higher priority matched and was rejected, and the date
\* returned is that of a later pattern although another pattern's match
\* starts earlier in the text
C10_Witness ==
    /\ xOut.op = "extractExpiryDate"
    /\ xOut.val.date # Null
    /\ \E k \in DOMAIN datePatterns :
          /\ Accepted(k)
          /\ xOut.val.date = CandidateOf(k)
          /\ \A j \in 1..(k - 1) : ~Accepted(j)
          /\ \E j \in 1..(k - 1) : Rejected(j) /\ MatchOf(j).index < MatchOf(k).index

\* five years of 365 days, in the unit of the extractor's instants
FiveYears == 5 * 365 * HoursPerDay

\* C11: every date extractExpiryDate returns lies within five years (of 365
\* days) before or after the instant of extraction; a date that a pattern
\* matched and the normalizer read but that lies outside that window is never
\* returned, and when every candidate is such a date the result is null with
\* confidence 0.
C11_WithinFiveYears ==
    xOut.op = "extractExpiryDate" =>
        LET matching == {k \in DOMAIN datePatterns : MatchOf(k).found}
            outside(k) == /\ CandidateOf(k) # Null
                          /\ \/ CandidateOf(k).time < xNow - FiveYears
                             \/ CandidateOf(k).time > xNow + FiveYears
        IN  /\ xOut.val.date # Null =>
                  /\ xOut.val.date.time >= xNow - FiveYears
                  /\ xOut.val.date.time <= xNow + FiveYears
                  /\ \A k \in matching : outside(k) => xOut.val.date # CandidateOf(k)
            /\ (matching # {} /\ \A k \in matching : outside(k)) =>
                  xOut.val = [date |-> Null, confidence |-> 0]

\* well-formed expiry text whose only date lies ten years ahead
C11_Witness ==
    /\ xOut.op = "extractExpiryDate"
    /\ xOut.val = [date |-> Null, confidence |-> 0]
    /\ \E k \in DOMAIN datePatterns :
          /\ MatchOf(k).found
          /\ CandidateOf(k) # Null
          /\ CandidateOf(k).time > xNow + 2 * FiveYears

\* the pattern whose date the call returns: the first accepted one
Accepting == {k \in DOMAIN datePatterns : Accepted(k)}
FirstAccepted == CHOOSE k \in Accepting : \A j \in Accepting : k <= j

\* 1 when the string contains the phrase, else 0
Has(s, phrase) == IF includes(s, phrase) THEN 1 ELSE 0

\* C12: the confidence of an accepted extraction is min(0.95, 0.5 + 0.3 if
\* the matching pattern's source contains "expir" + 0.2 if it contains
\* "valid" + 0.1 for the colon + 0.2 if the matched text contains "expiry
\* date" + 0.2 if it contains "valid until" + 0.15 if it contains "expires"),
\* every bonus counted on its own; so it is never below 0.5.
C12_ConfidenceFormula ==
    (xOut.op = "extractExpiryDate" /\ xOut.val.date # Null) =>
        LET source == Sources[FirstAccepted]
            text == toLowerCase(matched(cleanText(xText), MatchOf(FirstAccepted)))
            sum == 50 + 30 * Has(source, <<"e", "x", "p", "i", "r">>)
                      + 20 * Has(source, <<"v", "a", "l", "i", "d">>)
                      + 10 * Has(source, <<":">>)
                      + 20 * Has(text, <<"e", "x", "p", "i", "r", "y", " ", "d", "a", "t", "e">>)
                      + 20 * Has(text, <<"v", "a", "l", "i", "d", " ", "u", "n", "t", "i", "l">>)
                      + 15 * Has(text, <<"e", "x", "p", "i", "r", "e", "s">>)
        IN  /\ xOut.val.confidence = (IF sum < 95 THEN sum ELSE 95)
            /\ xOut.val.confidence >= 50

\* an accepted result below the cap, two bonuses of the pattern's source added up
C12_Witness ==
    /\ xOut.op = "extractExpiryDate"
    /\ xOut.val.date # Null
    /\ xOut.val.confidence = 80
    /\ FirstAccepted \in 4..6

\* every string a pattern matches contains a colon at this place: no way
\* through the pattern avoids a colon
RECURSIVE RequiresColon(_)
RequiresColon(r) ==
    CASE r.t = "chr" -> r.cls = Class({":"})
      [] r.t = "rep" -> r.lo >= 1 /\ r.cls = Class({":"})
      [] r.t = "opt" -> FALSE
      [] r.t = "cap" -> RequiresColon(r.r)
      [] r.t = "alt" -> \A i \in DOMAIN r.rs : RequiresColon(r.rs[i])
      [] r.t = "seq" -> \E i \in DOMAIN r.rs : RequiresColon(r.rs[i])
      [] OTHER -> FALSE

\* C13: the +0.1 colon bonus is part of an accepted result's confidence only
\* when the matching pattern requires a colon after the label; the result of
\* a pattern in which the colon is optional or absent does not get it.
C13_ColonBonusOnlyWhenRequired ==
    (xOut.op = "extractExpiryDate" /\ xOut.val.date # Null) =>
        LET source == Sources[FirstAccepted]
            text == toLowerCase(matched(cleanText(xText), MatchOf(FirstAccepted)))
            colon == IF RequiresColon(datePatterns[FirstAccepted].re) THEN 1 ELSE 0
            sum == 50 + 30 * Has(source, <<"e", "x", "p", "i", "r">>)
                      + 20 * Has(source, <<"v", "a", "l", "i", "d">>)
                      + 10 * colon
                      + 20 * Has(text, <<"e", "x", "p", "i", "r", "y", " ", "d", "a", "t", "e">>)
                      + 20 * Has(text, <<"v", "a", "l", "i", "d", " ", "u", "n", "t", "i", "l">>)
                      + 15 * Has(text, <<"e", "x", "p", "i", "r", "e", "s">>)
        IN  xOut.val.confidence = (IF sum < 95 THEN sum ELSE 95)

\* C14: for the text "Expiry Date: " followed by a slashed numeric date
\* MM/DD/YYYY inside the plausibility window ("Expiry Date: 12/31/2026"),
\* extractExpiryDate returns that calendar day (2026-12-31) with a confidence
\* of at least 0.8.
C14_LabelledSlashedDate ==
    \A mdy \in LabelledDays :
        LET day == LocalTime(mdy[3], mdy[1], mdy[2], 0)
        IN  (/\ xOut.op = "extractExpiryDate"
             /\ xText = ExpiryDateText(mdy[1], mdy[2], mdy[3])
             /\ day >= xNow - FiveYears
             /\ day <= xNow + FiveYears) =>
                /\ xOut.val.date = DateAt(day)
                /\ xOut.val.confidence >= 80

C14_Witness ==
    /\ xOut.op = "extractExpiryDate"
    /\ xText = ExpiryDateText(12, 31, 2026)
    /\ xOut.val.date = DateAt(LocalTime(2026, 12, 31, 0))
    /\ xOut.val.confidence >= 80

\* C15: when no pattern yields an accepted result (no expiry/valid label at
\* all, empty text, a labelled date that cannot be read), extractExpiryDate
\* returns exactly {date: null, confidence: 0}; the call returns, it does not
\* throw.
C15_AbsentResult ==
    (xOut # [op |-> "none"] /\ Accepting = {}) =>
        /\ xOut.op = "extractExpiryDate"
        /\ xOut.val = [date |-> Null, confidence |-> 0]

\* the only labelled date cannot be read
C15_Witness ==
    /\ xOut.op = "extractExpiryDate"
    /\ xOut.val = [date |-> Null, confidence |-> 0]
    /\ \E k \in DOMAIN datePatterns : MatchOf(k).found /\ CandidateOf(k) = Null
    /\ Accepting = {}

\* the calendar day <<day, month, year>> at local midnight
DayOf(dmy) == DateAt(LocalTime(dmy[3], dmy[2], dmy[1], 0))

\* C16 as stated: for every string DD/MM/YYYY (separator / or -) naming a
\* real calendar day, the date normalizer returns an instant whose year, month
\* and day are the YYYY, MM and DD of the string.
C16_DayFirstRoundTrip ==
    \A dmy \in RealDays, sep \in Separators :
        (/\ nOut.op \in {"parseDate", "toDate"}
         /\ nIn = DayFirstText(dmy[1], dmy[2], dmy[3], sep)) =>
            nOut.val = DayOf(dmy)

\* C16 amended: toDate returns the day DD of month MM of year YYYY for every
\* such string; DateExtractor.parseDate reads the first field as the month:
\* it returns day MM of month DD when that is a calendar day, and returns the
\* day the string names only when DD = MM.
C16_DayFirstOnlyInToDate ==
    \A dmy \in RealDays, sep \in Separators :
        nIn = DayFirstText(dmy[1], dmy[2], dmy[3], sep) =>
            /\ nOut.op = "toDate" => nOut.val = DayOf(dmy)
            /\ nOut.op = "parseDate" =>
                  /\ nOut.val # Null
                  /\ nOut.val = DayOf(dmy) <=> dmy[1] = dmy[2]
                  /\ (dmy[1] <= 12 /\ dmy[2] <= DaysInMonth(dmy[3], dmy[1])) =>
                        nOut.val = DayOf(<<dmy[2], dmy[1], dmy[3]>>)

\* 05/01/2027 is the first of May to parseDate
C16_Witness ==
    /\ nOut.op = "parseDate"
    /\ nIn = DayFirstText(5, 1, 2027, "/")
    /\ nOut.val = DayOf(<<1, 5, 2027>>)

\* C17: parsing a numeric date string that names a day no calendar has
\* (31/02/2024, day 31 of a 30-day month) returns no date; the result is never
\* a date carried forward into the following month.
C17_NonExistentDayAbsent ==
    \A dmy \in NonExistentDays, sep \in Separators :
        nIn = DayFirstText(dmy[1], dmy[2], dmy[3], sep) =>
            /\ nOut.op = "parseDate" => nOut.val = Null
            /\ nOut.op = "toDate" => nOut.val = InvalidDate

\* the first format of parseDate whose regex matches the string, 0 if none
FirstMatching ==
    LET hits == {k \in DOMAIN formats : match(trim(nIn), formats[k].re).found}
    IN  IF hits = {} THEN 0 ELSE CHOOSE k \in hits : \A j \in hits : k <= j

\* the date that format builds
Built ==
    dateOfFormat(formats[FirstMatching], trim(nIn),
                 match(trim(nIn), formats[FirstMatching].re))

UpTo(n) == [i \in 1..n |-> i]

\* C18 as stated: the layouts are tried in their order and the first one whose
\* regex matches decides: its date is returned, and when that date is invalid
\* the result is null and neither a later layout nor the native fallback is
\* tried.
C18_FirstMatchEndsTheSearch ==
    (nOut.op = "parseDate" /\ FirstMatching # 0) =>
        /\ nOut.tried = UpTo(FirstMatching)
        /\ nOut.val = (IF Built.nan THEN Null ELSE Built)

\* C18 amended: the layouts are tried in their order; the first one whose
\* regex matches and builds a valid date ends the search with that date; when
\* the date it builds is invalid the remaining layouts and then the native
\* fallback are tried as well, none of them yields a date, and the result is
\* null.
C18_InvalidDateFallsThrough ==
    (nOut.op = "parseDate" /\ FirstMatching # 0) =>
        IF Built.nan
        THEN nOut.val = Null /\ nOut.tried = UpTo(Len(formats) + 1)
        ELSE nOut.val = Built /\ nOut.tried = UpTo(FirstMatching)

\* a named-month layout with a word that names no month
C18_Witness ==
    /\ nOut.op = "parseDate"
    /\ FirstMatching = 1
    /\ Built.nan
    /\ nOut.val = Null
    /\ nOut.tried = <<1, 2, 3, 4>>

\* what extractExpiryDate returns for the text on an instance that has served
\* no call before
Fresh ==
    LET result == extractExpiryDate(xText, xNow, [k \in DOMAIN datePatterns |-> 0])
    IN  [date |-> result.date, confidence |-> result.confidence]

\* C19: extractExpiryDate keeps no state on the shared dateExtractor between
\* calls: whatever calls came before, a call returns what the same text gives
\* on a fresh instance at the same instant, and it leaves the pattern table
\* (the regexes and their lastIndex) as it was.
C19_NoStateBetweenCalls ==
    xOut.op = "extractExpiryDate" =>
        /\ xOut.val = Fresh
        /\ xLastIndex = [k \in DOMAIN datePatterns |-> 0]

\* a date extracted by an instance that had served a call before
C19_Witness ==
    /\ xOut.op = "extractExpiryDate"
    /\ xEarlier
    /\ xOut.val.date # Null
    /\ xOut.val = Fresh

ClientOps == {"getCertificateStatus", "CertificateViewModal", "SubscriptionCard"}

\* the status and the day count the client derived
ClientStatus ==
    IF cOut.op = "getCertificateStatus" THEN cOut.val.status
    ELSE IF cOut.val.isExpired THEN "expired"
    ELSE IF cOut.val.isExpiringSoon THEN "expiring"
    ELSE "valid"

ClientDays ==
    IF cOut.op # "getCertificateStatus" THEN cOut.val.daysUntilExpiry
    ELSE IF cOut.val.status = "expired" THEN -cOut.val.daysOverdue
    ELSE cOut.val.daysRemaining

\* the bucket the server's statistics count the same artifact in, and the
\* daysUntilExpiry its enrichment assigns
ServerBucket ==
    LET stats == IF cOut.op = "SubscriptionCard"
                 THEN memGetSubscriptionStats(<<[id |-> 1, endDate |-> cExpiry]>>, cNow)
                 ELSE memGetCertificateStats(<<[id |-> 1, expiryDate |-> cExpiry]>>, cNow)
    IN  CHOOSE b \in {"expired", "expiring", "valid"} : stats[b] = 1

ServerDays ==
    IF cOut.op = "SubscriptionCard"
    THEN enrichSubscription([id |-> 1, endDate |-> cExpiry], cNow).daysUntilExpiry
    ELSE enrichCertificate([id |-> 1, expiryDate |-> cExpiry], cNow).daysUntilExpiry

\* C20: for every expiry instant and every evaluation instant, the status and
\* the day count the client computes (getCertificateStatus, certificate view
\* modal, subscription card) equal the bucket and the daysUntilExpiry the
\* server assigns to the same artifact.
C20_ClientEqualsServer ==
    cOut.op \in ClientOps =>
        /\ ClientStatus = ServerBucket
        /\ ClientDays = ServerDays

\* C21: as the comment on enrichSubscription says, progressPercentage is 0
\* for an expired subscription and 100 for one that has just started (a full
\* 365 days remaining).
C21_ProgressAsCommented ==
    \A r \in SubRecords :
        /\ r.isExpired => r.progressPercentage = 0
        /\ r.daysUntilExpiry = totalDays => r.progressPercentage = 100 * PctUnit

\* C22: after any sequence of create, update and delete requests the
\* statistics of certificates and of subscriptions have
\* total = expired + expiring + valid, and total is the number of stored records.
C22_BucketsAddUp ==
    ret.op \in {"GET /api/certificates/stats", "GET /api/subscriptions/stats"} =>
        /\ ret.val.total = ret.val.expired + ret.val.expiring + ret.val.valid
        /\ ret.op = "GET /api/certificates/stats" =>
              ret.val.total = Cardinality(StoredCerts)
        /\ ret.op = "GET /api/subscriptions/stats" =>
              ret.val.total = IF useInMemory THEN Len(subscriptionItems)
                              ELSE Cardinality(subscriptions)

\* the subscriptions stored
StoredSubs ==
    IF useInMemory
    THEN {[id |-> subscriptionItems[i].id, endDate |-> subscriptionItems[i].endDate] :
             i \in DOMAIN subscriptionItems}
    ELSE subscriptions

\* C23: deleting a subscription id that is not stored reports failure in
\* both storages: deleteSubscription returns false and the route answers 404
\* 'Subscription not found', never 204; the stored subscriptions stay as they
\* are.
C23_DeleteUnknownSubscription ==
    [][\A id \in SubIds :
          (DeleteSubscriptionRoute(id) /\ id \notin {s.id : s \in StoredSubs}) =>
              /\ ret'.success = FALSE
              /\ ret'.status = 404
              /\ ret'.message = "Subscription not found"
              /\ UNCHANGED <<subscriptionItems, subscriptions>>]_vars

\* C30: every certificate stored through POST /api/certificates or
\* PATCH /api/certificates/:id carries a finite expiry instant: a request whose
\* expiryDate is no date is answered with 400 and stores or changes nothing,
\* so no stored or returned certificate has a daysUntilExpiry that is NaN.
C30_ExpiryAlwaysFinite ==
    /\ \A c \in StoredCerts : c.expiryDate # NaN
    /\ \A i \in DOMAIN items : items[i].daysUntilExpiry # NaN
    /\ (ret.op \in {"POST /api/certificates", "PATCH /api/certificates/:id"}
        /\ ret.status \in {200, 201}) =>
          ret.val.expiryDate # NaN /\ ret.val.daysUntilExpiry # NaN

\* C25: GET /api/certificates answers 400 for a limit outside 1..100
\* (default 20), an offset below 0 (default 0) or an unknown status, and
\* otherwise returns the stored certificates of the requested bucket in
\* ascending order of expiry date, the first `offset` of them skipped and at
\* most `limit` of them returned.
C25_PageOfTheBucketInOrder ==
    ret.op = "GET /api/certificates" =>
        LET q == ret.query
            limit == IF q.limit = Absent THEN 20 ELSE q.limit
            offset == IF q.offset = Absent THEN 0 ELSE q.offset
            st == IF q.status = None THEN "all" ELSE q.status
            inRange == /\ st \in Statuses
                       /\ limit # NaN /\ limit >= 1 /\ limit <= 100
                       /\ offset # NaN /\ offset >= 0
            bucket == {c \in StoredCerts :
                          \/ st = "all"
                          \/ /\ c.expiryDate # NaN
                             /\ Classify(c.expiryDate, now, windowDays) = st}
            ascending(s) ==
                \A i, j \in DOMAIN s :
                    (i < j /\ s[i].expiryDate # NaN /\ s[j].expiryDate # NaN) =>
                        s[i].expiryDate <= s[j].expiryDate
            returned == [i \in DOMAIN ret.val |->
                            [id |-> ret.val[i].id, expiryDate |-> ret.val[i].expiryDate]]
        IN  /\ ret.status = (IF inRange THEN 200 ELSE 400)
            /\ inRange =>
                  \E s \in Orders(bucket) :
                      /\ ascending(s)
                      /\ returned = SubSeq(s, offset + 1, Min(offset + limit, Len(s)))

\* the ids of the stored certificates
StoredCertIds == {c.id : c \in StoredCerts}

\* C24: in both storages getCertificate(id) returns a record exactly when id
\* is stored, and the record of that id; an id becomes stored only by the
\* createCertificate that issued it and stops being stored only by
\* deleteCertificate(id), which returns true exactly when id was stored and
\* removes that record and no other; updateCertificate and deleteCertificate
\* on an id that is not stored return undefined and false and change nothing.
C24_StoredIffCreatedAndNotDeleted ==
    [][/\ \A id \in CertIds :
            /\ (ret'.op = "getCertificate" /\ ret'.id = id /\ GetCertificate(id)) =>
                  /\ (ret'.val # undefined) <=> (id \in StoredCertIds)
                  /\ id \in StoredCertIds =>
                        [id |-> ret'.val.id, expiryDate |-> ret'.val.expiryDate]
                            \in StoredCerts
                        /\ ret'.val.id = id
            /\ (ret'.op = "deleteCertificate" /\ ret'.id = id /\ DeleteCertificate(id)) =>
                  /\ ret'.val = (id \in StoredCertIds)
                  /\ StoredCerts' = {c \in StoredCerts : c.id # id}
                  /\ id \notin StoredCertIds => UNCHANGED <<items, certificates>>
            /\ (ret'.op = "updateCertificate" /\ ret'.id = id
                /\ \E u \in CertUpdates : UpdateCertificate(id, u)) =>
                  /\ StoredCertIds' = StoredCertIds
                  /\ id \notin StoredCertIds =>
                        /\ ret'.val = undefined
                        /\ UNCHANGED <<items, certificates>>
       /\ (ret'.op = "createCertificate"
           /\ \E e \in ExpiryDates : CreateCertificate(e)) =>
                /\ nextCertId \notin StoredCertIds
                /\ StoredCerts' = StoredCerts \cup
                                    {[id |-> nextCertId,
                                      expiryDate |-> ret'.val.expiryDate]}
       /\ StoredCertIds' # StoredCertIds =>
            ret'.op \in {"createCertificate", "deleteCertificate"}
       /\ \A c \in StoredCerts' : c.id < nextCertId'
       /\ Cardinality(StoredCertIds') = Cardinality(StoredCerts')
      ]_vars

\* a certificate that was created and then deleted is looked up and not
\* found, while another certificate is still stored
C24_Witness ==
    /\ ret.op = "getCertificate"
    /\ ret.id < nextCertId
    /\ ret.id \notin StoredCertIds
    /\ ret.val = undefined
    /\ StoredCertIds # {}

-----------------------------------------------------------------------------
\* The Dashboard page: the handlers of the upload area, of the certificate
\* cards and of the three modals, and the request the verification modal sends.

\* the certificates shown as cards
CardIds == {1, 2}
\* the files dropped on the upload area and the files picked for a renewal
AreaFiles == {"scan.pdf"}
RenewFiles == {"renewal.pdf"}

dashboardFrame == <<storageVars, classifyVars, extractVars, normalizeVars,
                    search, auth>>

\* {showDateVerification && uploadData && (<DateVerificationModal ...
DateVerificationModalShown ==
    dashboard.showDateVerification /\ dashboard.uploadData # None
\* {showViewModal && selectedCertificate && (<CertificateViewModal ...
CertificateViewModalShown ==
    dashboard.showViewModal /\ dashboard.selectedCertificate # Absent
\* {showEditModal && selectedCertificate && (<CertificateEditModal ...
CertificateEditModalShown ==
    dashboard.showEditModal /\ dashboard.selectedCertificate # Absent

\* the page under the dialogs can be clicked: no dialog and no file picker open
Interactive ==
    /\ ~DateVerificationModalShown
    /\ ~CertificateViewModalShown
    /\ ~CertificateEditModalShown
    /\ ~dashboard.picker

\* FileUpload: a file is dropped, uploadMutation.mutate(acceptedFiles[0])
DropFile(file) ==
    /\ Interactive
    /\ dashboard.uploading = None
    /\ dashboard' = [dashboard EXCEPT !.uploading = file]
    /\ UNCHANGED dashboardFrame

\* FileUpload: the upload fails, onUploadComplete is not called
UploadFailed ==
    /\ dashboard.uploading # None
    /\ dashboard' = [dashboard EXCEPT !.uploading = None]
    /\ UNCHANGED dashboardFrame

\* uploadMutation.onSuccess -> onUploadComplete(data)
handleUploadComplete ==
    /\ dashboard.uploading # None
    /\ dashboard' = [dashboard EXCEPT !.uploading = None,
                                      !.uploadData = dashboard.uploading,
                                      !.showDateVerification = TRUE]
    /\ UNCHANGED dashboardFrame

handleEditCertificate(certificate) ==
    /\ Interactive
    /\ dashboard' = [dashboard EXCEPT !.selectedCertificate = certificate,
                                      !.showEditModal = TRUE]
    /\ UNCHANGED dashboardFrame

handleViewCertificate(certificate) ==
    /\ Interactive
    /\ dashboard' = [dashboard EXCEPT !.selectedCertificate = certificate,
                                      !.showViewModal = TRUE]
    /\ UNCHANGED dashboardFrame

\* the Renew button of a card: the file picker opens
handleRenewCertificate(certificate) ==
    /\ Interactive
    /\ dashboard' = [dashboard EXCEPT !.selectedCertificate = certificate,
                                      !.verificationMode = "update",
                                      !.picker = TRUE]
    /\ UNCHANGED dashboardFrame

\* the file picker is dismissed: no change event, or one without a file
\* (if (!file) return)
PickerCancelled ==
    /\ dashboard.picker
    /\ dashboard' = [dashboard EXCEPT !.picker = FALSE]
    /\ UNCHANGED dashboardFrame

\* handleRenewFileSelected up to its await of the upload request
handleRenewFileSelected(file) ==
    /\ dashboard.picker
    /\ dashboard.renewUploading = None
    /\ dashboard' = [dashboard EXCEPT !.picker = FALSE,
                                      !.renewUploading = file]
    /\ UNCHANGED dashboardFrame

\* handleRenewFileSelected after the await: setUploadData, setShowDateVerification
RenewUploaded ==
    /\ dashboard.renewUploading # None
    /\ dashboard' = [dashboard EXCEPT !.renewUploading = None,
                                      !.uploadData = dashboard.renewUploading,
                                      !.showDateVerification = TRUE]
    /\ UNCHANGED dashboardFrame

\* apiRequest throws: the handler ends at its await
RenewUploadFailed ==
    /\ dashboard.renewUploading # None
    /\ dashboard' = [dashboard EXCEPT !.renewUploading = None]
    /\ UNCHANGED dashboardFrame

\* DateVerificationModal: mutationFn, with the props Dashboard passes
\* (mode = verificationMode, certificateId only in update mode)
mutationFn(mode, selectedCertificate, uploadData) ==
    LET certificateId == IF mode = "update" THEN selectedCertificate ELSE Absent
    IN  IF mode = "update" /\ certificateId # Absent
        THEN [method |-> "PATCH", id |-> certificateId, fileName |-> uploadData]
        ELSE [method |-> "POST", id |-> Absent, fileName |-> uploadData]

\* DateVerificationModal.handleConfirm with a name and a date filled in
handleConfirm ==
    /\ DateVerificationModalShown
    /\ ~dashboard.mutation
    /\ dashboard' = [dashboard EXCEPT
                        !.mutation = TRUE,
                        !.request = mutationFn(dashboard.verificationMode,
                                               dashboard.selectedCertificate,
                                               dashboard.uploadData)]
    /\ UNCHANGED dashboardFrame

\* mutation.onSuccess -> onConfirm of Dashboard
onConfirm ==
    /\ dashboard.mutation
    /\ dashboard' = [dashboard EXCEPT !.mutation = FALSE,
                                      !.showDateVerification = FALSE,
                                      !.uploadData = None,
                                      !.verificationMode = "create",
                                      !.selectedCertificate = Absent]
    /\ UNCHANGED dashboardFrame

\* mutation.onError: a toast, the modal stays
onError ==
    /\ dashboard.mutation
    /\ dashboard' = [dashboard EXCEPT !.mutation = FALSE]
    /\ UNCHANGED dashboardFrame

\* onClose of the DateVerificationModal
onCloseDateVerification ==
    /\ DateVerificationModalShown
    /\ ~dashboard.mutation
    /\ dashboard' = [dashboard EXCEPT !.showDateVerification = FALSE,
                                      !.uploadData = None,
                                      !.verificationMode = "create"]
    /\ UNCHANGED dashboardFrame

\* onClose of the CertificateViewModal
onCloseView ==
    /\ CertificateViewModalShown
    /\ dashboard' = [dashboard EXCEPT !.showViewModal = FALSE,
                                      !.selectedCertificate = Absent]
    /\ UNCHANGED dashboardFrame

\* onEdit of the CertificateViewModal
onEditView ==
    /\ CertificateViewModalShown
    /\ dashboard' = [dashboard EXCEPT !.showViewModal = FALSE,
                                      !.showEditModal = TRUE]
    /\ UNCHANGED dashboardFrame

\* onClose and onSave of the CertificateEditModal
onCloseEdit ==
    /\ CertificateEditModalShown
    /\ dashboard' = [dashboard EXCEPT !.showEditModal = FALSE,
                                      !.selectedCertificate = Absent]
    /\ UNCHANGED dashboardFrame

InitDashboard ==
    /\ StorageIdle
    /\ ClassifyIdle
    /\ ExtractIdle
    /\ NormalizeIdle
    /\ ClientIdle

NextDashboard ==
    \/ \E file \in AreaFiles : DropFile(file)
    \/ UploadFailed
    \/ handleUploadComplete
    \/ \E certificate \in CardIds : handleEditCertificate(certificate)
    \/ \E certificate \in CardIds : handleViewCertificate(certificate)
    \/ \E certificate \in CardIds : handleRenewCertificate(certificate)
    \/ PickerCancelled
    \/ \E file \in RenewFiles : handleRenewFileSelected(file)
    \/ RenewUploaded
    \/ RenewUploadFailed
    \/ handleConfirm
    \/ onConfirm
    \/ onError
    \/ onCloseDateVerification
    \/ onCloseView
    \/ onEditView
    \/ onCloseEdit

SpecDashboard == InitDashboard /\ [][NextDashboard]_vars

\* C26: a file uploaded through the upload area is verified in create mode and
\* its confirmation sends POST /api/certificates, never a PATCH; update mode
\* and PATCH occur only for a file picked after the Renew button of a card.
C26_UploadAreaAlwaysCreates ==
    /\ (DateVerificationModalShown /\ dashboard.uploadData \in AreaFiles) =>
          dashboard.verificationMode = "create"
    /\ dashboard.request.method = "PATCH" =>
          dashboard.request.fileName \in RenewFiles

-----------------------------------------------------------------------------
\* The useSearch hook: the debounce timer of its effect and the query of
\* useQuery keyed by the debounced text. Time is counted in milliseconds.

ClockStep == 100
MaxClock == 700

\* what is typed into the search bar
SearchInputs == {<<>>, <<" ">>, <<"a">>, <<"a", " ">>}

searchFrame == <<storageVars, classifyVars, extractVars, normalizeVars,
                 dashboard, auth>>

\* the query were enabled for every text that is not empty
enabled_NotEmpty(debouncedQuery) == debouncedQuery # <<>>

\* enabled: !!debouncedQuery.trim()
enabled(debouncedQuery) == trim(debouncedQuery) # <<>>

\* isLoading of useQuery for the key of q
isLoading(s, q) ==
    IF enabled(q) THEN q \in s.fetching /\ q \notin s.data
    ELSE s.v4

\* data of useQuery for the key of q
queryData(s, q) == IF q \in s.data THEN "data" ELSE "undefined"

\* what useSearch returns
useSearch(s) ==
    [searchQuery |-> s.searchQuery,
     searchResults |-> IF s.debouncedQuery # <<>>
                       THEN queryData(s, s.debouncedQuery) ELSE "null",
     isSearching |-> IF s.debouncedQuery # <<>>
                     THEN isLoading(s, s.debouncedQuery) ELSE FALSE]

\* setSearchQuery(q) with a new text: the render runs the cleanup of the
\* effect (clearTimeout) and the effect again (setTimeout(..., 300))
setSearchQuery(q) ==
    /\ q # search.searchQuery
    /\ search' = [search EXCEPT
                     !.searchQuery = q,
                     !.changedAt = search.clock,
                     !.timer = [set |-> TRUE,
                                due |-> search.clock + debounceDelay,
                                value |-> q]]
    /\ UNCHANGED searchFrame

\* the timer fires, at its due time or later: setDebouncedQuery(searchQuery);
\* the render that follows lets useQuery fetch the new key when it is enabled
\* and not being fetched (a key that has data is fetched again when stale)
TimerFired ==
    /\ search.timer.set
    /\ search.clock >= search.timer.due
    /\ \E stale \in BOOLEAN :
          LET q == search.timer.value
              fetch == /\ q # search.debouncedQuery
                       /\ enabled(q)
                       /\ q \notin search.fetching
                       /\ (q \notin search.data \/ stale)
          IN  search' = [search EXCEPT
                            !.debouncedQuery = q,
                            !.timer.set = FALSE,
                            !.fetching = IF fetch THEN @ \cup {q} ELSE @,
                            !.requests = IF fetch THEN @ \cup {q} ELSE @]
    /\ UNCHANGED searchFrame

\* the response of GET /api/certificates/search arrives
FetchResolved(q) ==
    /\ q \in search.fetching
    /\ search' = [search EXCEPT !.fetching = @ \ {q}, !.data = @ \cup {q}]
    /\ UNCHANGED searchFrame

\* the request fails: 'Search failed'
FetchFailed(q) ==
    /\ q \in search.fetching
    /\ search' = [search EXCEPT !.fetching = @ \ {q}]
    /\ UNCHANGED searchFrame

PassTime ==
    /\ search.clock + ClockStep <= MaxClock
    /\ search' = [search EXCEPT !.clock = @ + ClockStep]
    /\ UNCHANGED searchFrame

InitSearch ==
    /\ StorageIdle
    /\ ClassifyIdle
    /\ ExtractIdle
    /\ NormalizeIdle
    /\ DashboardIdle
    /\ AuthIdle
    /\ \E v4 \in BOOLEAN : search = useSearchMounted(v4)

NextSearch ==
    \/ \E q \in SearchInputs : setSearchQuery(q)
    \/ TimerFired
    \/ \E q \in SearchInputs : FetchResolved(q)
    \/ \E q \in SearchInputs : FetchFailed(q)
    \/ PassTime

SpecSearch == InitSearch /\ [][NextSearch]_vars

\* C27: every change of searchQuery replaces the pending timer by one due 300
\* ms later; debouncedQuery changes only to the value searchQuery has had
\* for at least 300 ms; a search request is sent only for the debounced query
\* and only when it is not blank; while debouncedQuery is empty useSearch
\* returns searchResults null and isSearching false.
C27_Debounced ==
    [][/\ search'.searchQuery # search.searchQuery =>
             /\ search'.timer = [set |-> TRUE, due |-> search.clock + 300,
                                 value |-> search'.searchQuery]
             /\ search'.debouncedQuery = search.debouncedQuery
       /\ search'.debouncedQuery # search.debouncedQuery =>
             /\ search'.debouncedQuery = search.searchQuery
             /\ search.clock - search.changedAt >= 300
             /\ ~search'.timer.set
       /\ \A q \in search'.requests \ search.requests :
             /\ q = search'.debouncedQuery
             /\ trim(q) # <<>>
       /\ search'.debouncedQuery = <<>> =>
             /\ useSearch(search').searchResults = "null"
             /\ useSearch(search').isSearching = FALSE
      ]_vars

\* a text was typed, replaced within 300 ms, and only the second text was
\* searched for, 300 ms after it was typed
C27_Witness ==
    /\ search.debouncedQuery = <<"a">>
    /\ search.requests = {<<"a">>}
    /\ search.changedAt > 0
    /\ search.changedAt < 300
    /\ search.clock >= search.changedAt + 300

-----------------------------------------------------------------------------
\* useAuth and the Router of App: the initial getSession lookup, the
\* onAuthStateChange subscription, unmount, and what the router renders.

Emails == {"a@x", "b@x"}
Locations == {"/", "/certificates", "/subscriptions", "/login", "/missing"}

authFrame == <<storageVars, classifyVars, extractVars, normalizeVars,
               dashboard, search>>

\* the Switch of ProtectedApp
ProtectedApp(location) ==
    CASE location = "/" -> "Dashboard"
      [] location = "/certificates" -> "AllCertificates"
      [] location = "/subscriptions" -> "Subscriptions"
      [] OTHER -> "NotFound"

\* the router without its loading test
Router_NoLoading(user, loading, location) ==
    IF location = "/login" THEN "LoginPage"
    ELSE IF user # None THEN ProtectedApp(location) ELSE "Redirect"

\* what Router renders
Router(user, loading, location) ==
    IF loading THEN "null"
    ELSE IF location = "/login" THEN "LoginPage"
    ELSE IF user # None THEN ProtectedApp(location) ELSE "Redirect"

\* the Supabase client looks the session up for the pending getSession call;
\* init is still suspended at its await
GetSessionRead ==
    /\ auth.getSession = "called"
    /\ auth' = [auth EXCEPT !.getSession = "read", !.result = auth.session]
    /\ UNCHANGED authFrame

\* init continues after await supabase.auth.getSession()
GetSessionResolved ==
    /\ auth.getSession = "read"
    /\ auth' = IF ~auth.isMounted
               THEN [auth EXCEPT !.getSession = "done"]
               ELSE [auth EXCEPT !.getSession = "done",
                                 !.user = auth.result,
                                 !.loading = FALSE]
    /\ UNCHANGED authFrame

\* the session of the client changes to `session` (sign-in, sign-out, another
\* account, the same session refreshed) and the subscribers of
\* onAuthStateChange are called with it
AuthStateChange(session) ==
    /\ auth' = IF auth.subscribed
               THEN [auth EXCEPT !.session = session, !.user = session,
                                 !.event = TRUE]
               ELSE [auth EXCEPT !.session = session]
    /\ UNCHANGED authFrame

\* the cleanup of the effect
Unmount ==
    /\ auth.isMounted
    /\ auth' = [auth EXCEPT !.isMounted = FALSE, !.subscribed = FALSE]
    /\ UNCHANGED authFrame

\* a link is followed or an address is entered
Navigate(location) ==
    /\ auth.isMounted
    /\ location # auth.location
    /\ auth' = [auth EXCEPT !.location = location]
    /\ UNCHANGED authFrame

\* <Redirect to="/login" /> has been rendered and navigates
Redirect ==
    /\ auth.isMounted
    /\ Router(auth.user, auth.loading, auth.location) = "Redirect"
    /\ auth' = [auth EXCEPT !.location = "/login"]
    /\ UNCHANGED authFrame

InitAuth ==
    /\ StorageIdle
    /\ ClassifyIdle
    /\ ExtractIdle
    /\ NormalizeIdle
    /\ DashboardIdle
    /\ SearchIdle
    /\ \E session \in Emails \cup {None} : auth = useAuthMounted(session)

NextAuth ==
    \/ GetSessionRead
    \/ GetSessionResolved
    \/ \E session \in Emails \cup {None} : AuthStateChange(session)
    \/ Unmount
    \/ \E location \in Locations : Navigate(location)
    \/ Redirect

SpecAuth == InitAuth /\ [][NextAuth]_vars

\* the pages of ProtectedApp the claim names
ProtectedPages == {"Dashboard", "AllCertificates", "Subscriptions"}

\* C28: a protected page is rendered only when loading is false and user is
\* set; while loading the router renders nothing; with loading finished and
\* no user every location other than /login renders the redirect to /login,
\* which leads there.
C28_ProtectedOnlyWhenSignedIn ==
    [][LET view == Router(auth'.user, auth'.loading, auth'.location)
       IN  /\ view \in ProtectedPages => ~auth'.loading /\ auth'.user # None
           /\ view \in ProtectedPages => view = ProtectedApp(auth'.location)
           /\ auth'.loading => view = "null"
           /\ (~auth'.loading /\ auth'.user = None /\ auth'.location # "/login")
                 => view = "Redirect"
           /\ (~auth'.loading /\ auth'.location = "/login") => view = "LoginPage"
           /\ Redirect => auth'.location = "/login"
      ]_vars

\* the lookup has finished with a user and the certificates page is rendered
C28_Witness ==
    /\ ~auth.loading
    /\ auth.user \in Emails
    /\ Router(auth.user, auth.loading, auth.location) = "AllCertificates"

\* C29: once an auth-state-change event has set the user, or the initial
\* lookup has been answered, user is the session most recently delivered,
\* which is the session of the client: the answer of getSession arriving after
\* an event does not put an older session in its place; after unmount neither
\* the lookup nor the subscription changes user or loading.
C29_LatestSessionWins ==
    [][/\ (auth'.isMounted /\ (auth'.event \/ auth'.getSession = "done"))
             => auth'.user = auth'.session
       /\ ~auth.isMounted
             => auth'.user = auth.user /\ auth'.loading = auth.loading
      ]_vars

====
